---- MODULE Spec2Model ----
(***************************************************************************)
(* A model of the cryptod streaming codec (wiggin77/cryptod).              *)
(*                                                                         *)
(* The repository holds two generations of the codec:                      *)
(*   package cryptod  (src/crypto.go:156-376): no stream header, chunk     *)
(*                     kinds data / extra / tomb, extra metadata.  Its     *)
(*                     readChunkHeader exists in two revisions:            *)
(*                     src/chunk.go reads the fields with br.Read,         *)
(*                     src/unnamed/part_004:92-154 with io.ReadFull;       *)
(*   package crypto   (src/crypto.go:1-154, src/header.go, chunk header of *)
(*                     src/unnamed/part_004:156-288): a stream header,     *)
(*                     chunk kinds 'd' / 't', no extra metadata.           *)
(* The variable pkg says which generation a behaviour runs, the variable   *)
(* hrev which way its readChunkHeader reads.                               *)
(*                                                                         *)
(* Bytes.  A byte of a stream is a record [v, s].  v is the byte's value   *)
(* (0..255), s is <<>> for a byte written in the clear.  A byte of an AEAD *)
(* ciphertext has v = Opaque and s = <<key, nonce, aad, plaintext, index>>,*)
(* the call of Seal that produced it and its position in that call's       *)
(* output.  AES-256-GCM is modelled as an ideal AEAD: Open succeeds on     *)
(* exactly the outputs of Seal under the same key, nonce and additional    *)
(* data, and a ciphertext byte never equals a given cleartext value.       *)
(*                                                                         *)
(* Specifications.  Spec runs Encrypt, the stream in transit and Decrypt   *)
(* over buffers that never fail; UnitSpec calls the header functions on    *)
(* their own; FaultSpec runs Encrypt and Decrypt over a source and sinks   *)
(* that fail, and FaultLive is FaultSpec with Encrypt taking its steps;    *)
(* FileSpec runs EncryptFile, DecryptFile and cmd over a small file        *)
(* system.                                                                 *)
(***************************************************************************)
EXTENDS Integers, Sequences, FiniteSets, TLC

\* ------------------------------------------------------------- bounds
\* ChunkSize is 1024 * 1000 in the source; the model scales it down.
ChunkSize == 2
\* gcm.Overhead() is the 16-byte GCM tag; the model scales it down.
Overhead == 1
\* longest plaintext an Encrypt run is given
MaxPlainLen == 4
\* the buffer of a bufio.Reader, 4096 bytes in the library; scaled down so
\* that a stream of the model spans more than one buffer
BufSize == 25
\* the maxChunkSize a header read on its own is given: large enough for a
\* length of more than one varint byte
UnitMaxChunkSize == 300

\* ------------------------------------------------- program constants
NonceSize == 12
MaxVarintLen32 == 5
MaxVarintLen64 == 10
chunkTypeData == 1
chunkTypeExtra == 240
chunkTypeTomb == 241
schemeAES256GCM == 1

\* chunkTag = []byte{'c', 't'}
chunkTag == <<99, 116>>

\* the value of a ciphertext byte: no cleartext value
Opaque == 2 ^ 8

\* chunkType(0xDE) and schemeType(0xDE), the invalid values of the tests
badType == 222

Keys == {1, 2}
PlainBytes == {0, 1}
ExtraBytes == {7}
RandSeeds == {0, 1}

\* rand.Reader is an input of Encrypt.  The source with seed s fills its
\* k-th read with bytes of value (s * k) % 2: seed 0 repeats itself on every
\* read, seed 1 alternates.  MaxReads reads cover every run of the model.
MaxReads == MaxPlainLen + 2

RandSources == {[k \in 1..MaxReads |-> (s * k) % 2] : s \in RandSeeds}

\* ------------------------------------------------------------ helpers
Min(a, b) == IF a < b THEN a ELSE b

Take(s, n) == SubSeq(s, 1, Min(n, Len(s)))

Drop(s, n) == SubSeq(s, Min(n, Len(s)) + 1, Len(s))

Repeat(x, n) == [i \in 1..n |-> x]

\* all sequences over S of length 0..n
SeqsUpTo(S, n) == UNION {[1..k -> S] : k \in 0..n}

\* F applied to the value v: a local name for the result of a call
Bind(v, F(_)) == F(v)

\* a byte written in the clear
B(x) == [v |-> x, s |-> <<>>]

Bs(xs) == [i \in 1..Len(xs) |-> B(xs[i])]

\* ------------------------------------------------------------- varint
\* binary.PutUvarint: 7 bits per byte, least significant group first, the
\* high bit set on every byte but the last.
RECURSIVE PutUvarint(_)
PutUvarint(x) ==
    IF x < 128 THEN <<x>>
    ELSE <<(x % 128) + 128>> \o PutUvarint(x \div 128)

\* PutUvarint into an existing buffer: the bytes past the encoding keep
\* their old values.
PutInto(buf, enc) ==
    [i \in 1..Len(buf) |-> IF i <= Len(enc) THEN enc[i] ELSE buf[i]]

\* binary.ReadUvarint over a byte slice: [groups, err], groups being the
\* 7-bit groups of the value, least significant first (a uint64 does not fit
\* the model checker's integers).
RECURSIVE ReadUvarintFrom(_, _, _)
ReadUvarintFrom(bs, i, acc) ==
    IF i > MaxVarintLen64 THEN [groups |-> acc, err |-> "overflow"]
    ELSE IF i > Len(bs) THEN [groups |-> acc, err |-> "EOF"]
    ELSE IF bs[i] < 128
         THEN IF i = MaxVarintLen64 /\ bs[i] > 1
              THEN [groups |-> acc, err |-> "overflow"]
              ELSE [groups |-> Append(acc, bs[i]), err |-> "nil"]
         ELSE ReadUvarintFrom(bs, i + 1, Append(acc, bs[i] % 128))

ReadUvarint(bs) == ReadUvarintFrom(bs, 1, <<>>)

\* the largest integer the model checker holds, 2^31 - 1
Huge == 2 ^ 30 + (2 ^ 30 - 1)

\* uint32(val): the low 32 bits of the value.  Bits 0..27 are groups 1..4,
\* bits 28..31 the low four bits of group 5.  A result of 2^31 or more is
\* folded to Huge: every bound it is compared with is far below.
Uint32(groups) ==
    LET g(k) == IF k <= Len(groups) THEN groups[k] ELSE 0
        top == g(5) % 16
    IN IF top >= 8 THEN Huge
       ELSE g(1) + g(2) * 128 + g(3) * 16384 + g(4) * 2097152 + top * 268435456

\* ---------------------------------------------------------- ideal AEAD
\* gcm.Seal(dst, nonce, plaintext, data)
Seal(k, nonce, p, aad) ==
    [i \in 1..(Len(p) + Overhead) |->
        [v |-> Opaque, s |-> <<k, nonce, aad, p, i>>]]

\* a ciphertext byte an attacker has altered: it belongs to no Seal output
Tampered == [v |-> Opaque, s |-> <<0>>]

\* gcm.Open(dst, nonce, ciphertext, data): [p, err].  A nonce of the wrong
\* length panics; a ciphertext shorter than the tag, or one that is not the
\* output of Seal under this key, nonce and data, fails authentication.
Open(k, nonce, c, aad) ==
    IF Len(nonce) # NonceSize THEN [p |-> <<>>, err |-> "panic"]
    ELSE IF Len(c) < Overhead \/ Len(c) = 0 THEN [p |-> <<>>, err |-> "auth"]
    ELSE IF Len(c[1].s) # 5 THEN [p |-> <<>>, err |-> "auth"]
    ELSE IF c = Seal(k, nonce, c[1].s[4], aad)
         THEN [p |-> c[1].s[4], err |-> "nil"]
         ELSE [p |-> <<>>, err |-> "auth"]

\* A faulty getGCM: the cipher does not depend on the key string.
getGCM_fixedKey(skey, st) ==
    IF st = schemeAES256GCM THEN [gcm |-> 1, err |-> "nil"]
    ELSE [gcm |-> 0, err |-> "unsupported scheme"]

\* getGCM / getAES256GCM: the key string is hashed to the cipher key; the
\* model names a cipher by its key string (the hash is taken as injective).
getGCM(skey, st) ==
    IF st = schemeAES256GCM THEN [gcm |-> skey, err |-> "nil"]
    ELSE [gcm |-> 0, err |-> "unsupported scheme"]

\* getGCM (package crypto): one scheme only
getGCM_crypto(skey) == [gcm |-> skey, err |-> "nil"]

\* ---------------------------------------------------------- input reads
\* io.ReadFull(r, buf) with len(buf) = n on a source holding the bytes src:
\* [got, err, rest].
ReadFull(src, n) ==
    IF n = 0 THEN [got |-> <<>>, err |-> "nil", rest |-> src]
    ELSE IF Len(src) = 0 THEN [got |-> <<>>, err |-> "EOF", rest |-> src]
    ELSE IF Len(src) < n
         THEN [got |-> src, err |-> "ErrUnexpectedEOF", rest |-> <<>>]
         ELSE [got |-> Take(src, n), err |-> "nil", rest |-> Drop(src, n)]

\* r.Read(buf) with len(buf) = n on a bytes.Buffer holding src: one read,
\* which hands over what is there and reports io.EOF only when nothing is.
Read(src, n) ==
    IF n = 0 THEN [got |-> <<>>, err |-> "nil", rest |-> src]
    ELSE IF Len(src) = 0 THEN [got |-> <<>>, err |-> "EOF", rest |-> src]
    ELSE [got |-> Take(src, n), err |-> "nil", rest |-> Drop(src, n)]

\* A source that hands its bytes over piecewise is a sequence of non-empty
\* segments: one r.Read(buf) with len(buf) = n takes bytes from the first
\* segment only.  [got, err, rest]
segRead(segs, n) ==
    IF n = 0 THEN [got |-> <<>>, err |-> "nil", rest |-> segs]
    ELSE IF segs = <<>> THEN [got |-> <<>>, err |-> "EOF", rest |-> segs]
    ELSE [got |-> Take(Head(segs), n), err |-> "nil",
          rest |-> IF Len(Head(segs)) > n
                   THEN <<Drop(Head(segs), n)>> \o Tail(segs)
                   ELSE Tail(segs)]

\* a source that hands its bytes over in one piece
Segs(bs) == IF bs = <<>> THEN <<>> ELSE <<bs>>

\* the bytes a segmented source holds
RECURSIVE Flat(_)
Flat(segs) == IF segs = <<>> THEN <<>> ELSE Head(segs) \o Flat(Tail(segs))

\* A bufio.Reader over such a source is a record [buf, src]: buf the bytes
\* it has buffered and not yet handed out, src what the source still holds.
\* bufio.Reader.Read(p) with len(p) = n: [got, err, br].  The bytes come from
\* the buffer if it holds any, else from at most one read of the source, so
\* fewer than n may come back without an error.
brRead(br, n) ==
    IF n = 0 THEN [got |-> <<>>, err |-> "nil", br |-> br]
    ELSE IF Len(br.buf) > 0
    THEN [got |-> Take(br.buf, n), err |-> "nil",
          br |-> [br EXCEPT !.buf = Drop(br.buf, n)]]
    ELSE IF n >= BufSize
    THEN LET r == Read(br.src, n) IN
         [got |-> r.got, err |-> r.err, br |-> [br EXCEPT !.src = r.rest]]
    ELSE LET r == Read(br.src, BufSize) IN
         IF Len(r.got) = 0 THEN [got |-> <<>>, err |-> r.err, br |-> br]
         ELSE [got |-> Take(r.got, n), err |-> "nil",
               br |-> [buf |-> Drop(r.got, n), src |-> r.rest]]

\* bufio.Reader.ReadByte: the buffer is filled when it is empty
brReadByte(br) ==
    LET f == IF Len(br.buf) > 0 THEN br
             ELSE LET r == Read(br.src, BufSize) IN [buf |-> r.got, src |-> r.rest]
    IN IF Len(f.buf) = 0 THEN [got |-> <<>>, err |-> "EOF", br |-> f]
       ELSE [got |-> Take(f.buf, 1), err |-> "nil",
             br |-> [f EXCEPT !.buf = Tail(f.buf)]]

\* io.ReadFull(br, buf) with len(buf) = n: Read is called until n bytes are
\* in or a call fails.
RECURSIVE brReadAtLeast(_, _, _)
brReadAtLeast(br, n, acc) ==
    IF Len(acc) >= n THEN [got |-> acc, err |-> "nil", br |-> br]
    ELSE LET r == brRead(br, n - Len(acc))
             all == acc \o r.got
         IN IF r.err = "nil" THEN brReadAtLeast(r.br, n, all)
            ELSE [got |-> all,
                  err |-> IF Len(all) >= n THEN "nil"
                          ELSE IF Len(all) > 0 /\ r.err = "EOF" THEN "ErrUnexpectedEOF"
                          ELSE r.err,
                  br |-> r.br]

brReadFull(br, n) == brReadAtLeast(br, n, <<>>)

\* the buffer a read of n bytes leaves behind: the bytes read, then the
\* buffer's initial contents
Filled(got, init) ==
    [i \in 1..Len(init) |-> IF i <= Len(got) THEN got[i].v ELSE init[i]]

\* ------------------------------------------- chunk header, package cryptod
checkChunkType(ct) ==
    IF ct \in {chunkTypeData, chunkTypeExtra, chunkTypeTomb}
    THEN "nil" ELSE "invalid chunk type"

checkSchemeType(st) ==
    IF st = schemeAES256GCM THEN "nil" ELSE "invalid scheme type"

\* A faulty writeChunkHeader: the kind and the scheme are checked after the
\* header has gone out.
writeChunkHeader_lateCheck(ch) ==
    [err |-> IF checkChunkType(ch.ct) # "nil" THEN checkChunkType(ch.ct)
             ELSE checkSchemeType(ch.st),
     bytes |-> Bs(chunkTag \o <<ch.ct, ch.st, Len(ch.nonce) % 256>>
                  \o ch.nonce
                  \o PutInto(Repeat(0, MaxVarintLen32), PutUvarint(ch.dataSize)))]

\* writeChunkHeader: [err, bytes], bytes being what reaches the writer.
writeChunkHeader(ch) ==
    IF checkChunkType(ch.ct) # "nil"
    THEN [err |-> checkChunkType(ch.ct), bytes |-> <<>>]
    ELSE IF checkSchemeType(ch.st) # "nil"
    THEN [err |-> checkSchemeType(ch.st), bytes |-> <<>>]
    ELSE [err |-> "nil",
          bytes |-> Bs(chunkTag \o <<ch.ct, ch.st, Len(ch.nonce) % 256>>
                       \o ch.nonce
                       \o PutInto(Repeat(0, MaxVarintLen32), PutUvarint(ch.dataSize)))]

zeroChunkHeader == [ct |-> 0, st |-> 0, nonce |-> <<>>, dataSize |-> 0]

\* readChunkHeader(r, maxChunkSize), the revision that reads the tag, the
\* nonce and the size with io.ReadFull: [h, err, br].
readChunkHeader(br, maxChunkSize) ==
    Bind(brReadFull(br, Len(chunkTag)), LAMBDA rTag :
    LET h0 == zeroChunkHeader IN
    IF rTag.err # "nil" THEN [h |-> h0, err |-> rTag.err, br |-> rTag.br]
    ELSE IF Filled(rTag.got, Repeat(0, Len(chunkTag))) # chunkTag
    THEN [h |-> h0, err |-> "invalid chunk tag", br |-> rTag.br]
    ELSE
    Bind(brReadByte(rTag.br), LAMBDA rCt :
    IF rCt.err # "nil" THEN [h |-> h0, err |-> rCt.err, br |-> rCt.br]
    ELSE
    LET h1 == [h0 EXCEPT !.ct = rCt.got[1].v] IN
    IF checkChunkType(h1.ct) # "nil"
    THEN [h |-> h1, err |-> checkChunkType(h1.ct), br |-> rCt.br]
    ELSE
    Bind(brReadByte(rCt.br), LAMBDA rSt :
    IF rSt.err # "nil" THEN [h |-> h1, err |-> rSt.err, br |-> rSt.br]
    ELSE
    LET h2 == [h1 EXCEPT !.st = rSt.got[1].v] IN
    IF checkSchemeType(h2.st) # "nil"
    THEN [h |-> h2, err |-> checkSchemeType(h2.st), br |-> rSt.br]
    ELSE
    Bind(brReadByte(rSt.br), LAMBDA rNs :
    IF rNs.err # "nil" THEN [h |-> h2, err |-> rNs.err, br |-> rNs.br]
    ELSE
    Bind(brReadFull(rNs.br, rNs.got[1].v % 256), LAMBDA rNonce :
    LET nsize == rNs.got[1].v % 256
        h3 == [h2 EXCEPT !.nonce = Filled(rNonce.got, Repeat(0, nsize))]
    IN
    IF rNonce.err # "nil" THEN [h |-> h3, err |-> rNonce.err, br |-> rNonce.br]
    ELSE
    Bind(brReadFull(rNonce.br, MaxVarintLen32), LAMBDA rSize :
    IF rSize.err # "nil" THEN [h |-> h3, err |-> rSize.err, br |-> rSize.br]
    ELSE
    Bind(ReadUvarint(Filled(rSize.got, Repeat(0, MaxVarintLen32))), LAMBDA uv :
    IF uv.err # "nil" THEN [h |-> h3, err |-> uv.err, br |-> rSize.br]
    ELSE
    LET h4 == [h3 EXCEPT !.dataSize = Uint32(uv.groups)] IN
    IF h4.dataSize > maxChunkSize
    THEN [h |-> h4, err |-> "invalid chunk size", br |-> rSize.br]
    ELSE [h |-> h4, err |-> "nil", br |-> rSize.br])))))))

\* A faulty readChunkHeader: the tag is compared after the other fields
\* have been read and checked.
readChunkHeader_tagLast(br, maxChunkSize) ==
    Bind(brRead(br, Len(chunkTag)), LAMBDA rTag :
    IF rTag.err # "nil"
    THEN [h |-> zeroChunkHeader, err |-> rTag.err, br |-> rTag.br]
    ELSE
    Bind(readChunkHeader([buf |-> Bs(chunkTag) \o rTag.br.buf, src |-> rTag.br.src],
                         maxChunkSize), LAMBDA r :
    IF r.err = "nil" /\ Filled(rTag.got, Repeat(0, Len(chunkTag))) # chunkTag
    THEN [h |-> r.h, err |-> "invalid chunk tag", br |-> r.br]
    ELSE r))

\* readChunkHeader(r, maxChunkSize), the revision of chunk.go, which reads the
\* tag, the nonce and the size with one br.Read each and does not look at
\* the count: [h, err, br].
readChunkHeader_Read(br, maxChunkSize) ==
    Bind(brRead(br, Len(chunkTag)), LAMBDA rTag :
    LET h0 == zeroChunkHeader IN
    IF rTag.err # "nil" THEN [h |-> h0, err |-> rTag.err, br |-> rTag.br]
    ELSE IF Filled(rTag.got, Repeat(0, Len(chunkTag))) # chunkTag
    THEN [h |-> h0, err |-> "invalid chunk tag", br |-> rTag.br]
    ELSE
    Bind(brReadByte(rTag.br), LAMBDA rCt :
    IF rCt.err # "nil" THEN [h |-> h0, err |-> rCt.err, br |-> rCt.br]
    ELSE
    LET h1 == [h0 EXCEPT !.ct = rCt.got[1].v] IN
    IF checkChunkType(h1.ct) # "nil"
    THEN [h |-> h1, err |-> checkChunkType(h1.ct), br |-> rCt.br]
    ELSE
    Bind(brReadByte(rCt.br), LAMBDA rSt :
    IF rSt.err # "nil" THEN [h |-> h1, err |-> rSt.err, br |-> rSt.br]
    ELSE
    LET h2 == [h1 EXCEPT !.st = rSt.got[1].v] IN
    IF checkSchemeType(h2.st) # "nil"
    THEN [h |-> h2, err |-> checkSchemeType(h2.st), br |-> rSt.br]
    ELSE
    Bind(brReadByte(rSt.br), LAMBDA rNs :
    IF rNs.err # "nil" THEN [h |-> h2, err |-> rNs.err, br |-> rNs.br]
    ELSE
    Bind(brRead(rNs.br, rNs.got[1].v % 256), LAMBDA rNonce :
    LET nsize == rNs.got[1].v % 256
        h3 == [h2 EXCEPT !.nonce = Filled(rNonce.got, Repeat(0, nsize))]
    IN
    IF rNonce.err # "nil" THEN [h |-> h3, err |-> rNonce.err, br |-> rNonce.br]
    ELSE
    Bind(brRead(rNonce.br, MaxVarintLen32), LAMBDA rSize :
    IF rSize.err # "nil" THEN [h |-> h3, err |-> rSize.err, br |-> rSize.br]
    ELSE
    Bind(ReadUvarint(Filled(rSize.got, Repeat(0, MaxVarintLen32))), LAMBDA uv :
    IF uv.err # "nil" THEN [h |-> h3, err |-> uv.err, br |-> rSize.br]
    ELSE
    LET h4 == [h3 EXCEPT !.dataSize = Uint32(uv.groups)] IN
    IF h4.dataSize > maxChunkSize
    THEN [h |-> h4, err |-> "invalid chunk size", br |-> rSize.br]
    ELSE [h |-> h4, err |-> "nil", br |-> rSize.br])))))))

\* -------------------------------------------- chunk header, package crypto
\* chunkTypeData = "d", chunkTypeTomb = "t"
chunkTypeData_crypto == 100
chunkTypeTomb_crypto == 116
MaxVarintLen16 == 3
MaxNonceSize == 128

\* writeChunkHeader (package crypto): the bytes written.
writeChunkHeader_crypto(ch) ==
    Bs(chunkTag
       \o <<IF ch.tomb THEN chunkTypeTomb_crypto ELSE chunkTypeData_crypto>>
       \o PutInto(Repeat(0, MaxVarintLen16), PutUvarint(Len(ch.nonce)))
       \o ch.nonce
       \o PutInto(Repeat(0, MaxVarintLen32), PutUvarint(ch.size))
       \o chunkTag)

zeroChunkHeader_crypto == [nonce |-> <<>>, size |-> 0, tomb |-> FALSE]

\* readChunkHeader (package crypto): [h, err, rest].
readChunkHeader_crypto(src, maxChunkSize) ==
    Bind(Read(src, Len(chunkTag)), LAMBDA rTag :
    LET h0 == zeroChunkHeader_crypto IN
    IF rTag.err # "nil" THEN [h |-> h0, err |-> rTag.err, rest |-> rTag.rest]
    ELSE IF Filled(rTag.got, Repeat(0, Len(chunkTag))) # chunkTag
    THEN [h |-> h0, err |-> "invalid chunk header tag (open)", rest |-> rTag.rest]
    ELSE
    Bind(Read(rTag.rest, 1), LAMBDA rT :
    IF rT.err # "nil" THEN [h |-> h0, err |-> rT.err, rest |-> rT.rest]
    ELSE
    LET h1 == [h0 EXCEPT !.tomb =
                  (Filled(rT.got, <<chunkTypeData_crypto>>) = <<chunkTypeTomb_crypto>>)]
    IN
    Bind(Read(rT.rest, MaxVarintLen16), LAMBDA rNs :
    IF rNs.err # "nil" THEN [h |-> h1, err |-> rNs.err, rest |-> rNs.rest]
    ELSE
    Bind(ReadUvarint(Filled(rNs.got, Repeat(0, MaxVarintLen16))), LAMBDA uvN :
    IF uvN.err # "nil" THEN [h |-> h1, err |-> uvN.err, rest |-> rNs.rest]
    ELSE
    LET size == Uint32(uvN.groups) IN
    IF size > MaxNonceSize
    THEN [h |-> h1, err |-> "invalid nonce size", rest |-> rNs.rest]
    ELSE
    Bind(Read(rNs.rest, size), LAMBDA rNonce :
    LET h2 == [h1 EXCEPT !.nonce = Filled(rNonce.got, Repeat(0, size))] IN
    IF rNonce.err # "nil" THEN [h |-> h2, err |-> rNonce.err, rest |-> rNonce.rest]
    ELSE
    Bind(Read(rNonce.rest, MaxVarintLen32), LAMBDA rSize :
    IF rSize.err # "nil" THEN [h |-> h2, err |-> rSize.err, rest |-> rSize.rest]
    ELSE
    Bind(ReadUvarint(Filled(rSize.got, Repeat(0, MaxVarintLen32))), LAMBDA uv :
    IF uv.err # "nil" THEN [h |-> h2, err |-> uv.err, rest |-> rSize.rest]
    ELSE
    LET h3 == [h2 EXCEPT !.size = Uint32(uv.groups)] IN
    IF h3.size > maxChunkSize
    THEN [h |-> h3, err |-> "invalid chunk size", rest |-> rSize.rest]
    ELSE
    Bind(Read(rSize.rest, Len(chunkTag)), LAMBDA rClose :
    IF rClose.err # "nil" THEN [h |-> h3, err |-> rClose.err, rest |-> rClose.rest]
    ELSE IF Filled(rClose.got, Repeat(0, Len(chunkTag))) # chunkTag
    THEN [h |-> h3, err |-> "invalid chunk header tag (close)", rest |-> rClose.rest]
    ELSE [h |-> h3, err |-> "nil", rest |-> rClose.rest]))))))))

\* ------------------------------------------- stream header, package crypto
magicSize == 2
schemeSize == 9
verMajSize == 1
verMinSize == 1
headerSize == magicSize + schemeSize + verMajSize + verMinSize

\* magic = "sc", scheme = "aes256gcm"
magic == <<115, 99>>
scheme == <<97, 101, 115, 50, 53, 54, 103, 99, 109>>
verMaj == 1
verMin == 0

\* header{}: every field zero
zeroHeader ==
    [size |-> <<0>>, magic |-> Repeat(0, magicSize), scheme |-> Repeat(0, schemeSize),
     verMaj |-> Repeat(0, verMajSize), verMin |-> Repeat(0, verMinSize)]

\* header.init
headerInit ==
    [size |-> <<headerSize>>, magic |-> magic, scheme |-> scheme,
     verMaj |-> <<verMaj>>, verMin |-> <<verMin>>]

\* A faulty validate: verMin is not compared.
headerValidate_noVerMin(h) ==
    IF h.size # <<headerSize>> THEN "expected header size"
    ELSE IF h.magic # magic THEN "expected magic"
    ELSE IF h.scheme # scheme THEN "expected scheme"
    ELSE IF h.verMaj # <<verMaj>> THEN "expected verMaj"
    ELSE "nil"

\* header.validate
headerValidate(h) ==
    IF h.size # <<headerSize>> THEN "expected header size"
    ELSE IF h.magic # magic THEN "expected magic"
    ELSE IF h.scheme # scheme THEN "expected scheme"
    ELSE IF h.verMaj # <<verMaj>> THEN "expected verMaj"
    ELSE IF h.verMin # <<verMin>> THEN "expected verMin"
    ELSE "nil"

\* the fields in the order header.write and header.read walk them
headerFields == <<"size", "magic", "scheme", "verMaj", "verMin">>

\* A faulty write: verMin goes out before verMaj.
headerBytes_swapped(h) == Bs(h.size \o h.magic \o h.scheme \o h.verMin \o h.verMaj)

\* header.write on a writer that accepts every byte: the bytes written
headerBytes(h) == Bs(h.size \o h.magic \o h.scheme \o h.verMaj \o h.verMin)

\* A faulty read: the count r.Read returns is not compared with len(f).
RECURSIVE headerReadFrom_anyCount(_, _, _)
headerReadFrom_anyCount(h, i, src) ==
    IF i > Len(headerFields)
    THEN [h |-> h, err |-> headerValidate(h), rest |-> src]
    ELSE Bind(segRead(src, Len(h[headerFields[i]])), LAMBDA r :
              headerReadFrom_anyCount(
                  [h EXCEPT ![headerFields[i]] = Filled(r.got, h[headerFields[i]])],
                  i + 1, r.rest))

\* header.read, field by field, from a segmented source: [h, err, rest]
RECURSIVE headerReadFrom(_, _, _)
headerReadFrom(h, i, src) ==
    IF i > Len(headerFields)
    THEN [h |-> h, err |-> headerValidate(h), rest |-> src]
    ELSE
    LET f == headerFields[i]
        r == segRead(src, Len(h[f]))
        hh == [h EXCEPT ![f] = Filled(r.got, h[f])]
    IN
    IF Len(r.got) # Len(h[f])
    THEN [h |-> hh, err |-> "wrong number of byte read", rest |-> r.rest]
    ELSE headerReadFrom(hh, i + 1, r.rest)

\* header.read from a source that hands its bytes over in one piece
headerRead(src) ==
    Bind(headerReadFrom(zeroHeader, 1, Segs(src)), LAMBDA r :
         [h |-> r.h, err |-> r.err, rest |-> Flat(r.rest)])

\* --------------------------------------------------- sinks and sources
\* no limit, no fault
NoLimit == 0 - 1

\* test.LimitedWriter.Write(p) over a bytes.Buffer holding out: [n, err, out].
\* Its field written is never advanced, so the limit bounds each write on its
\* own; with limit 0 every write fails, as a write of errorWriter does.
\* A limit of NoLimit stands for the bytes.Buffer alone.
lwWrite(out, limit, p) ==
    IF limit = NoLimit THEN [n |-> Len(p), err |-> "nil", out |-> out \o p]
    ELSE IF 0 >= limit THEN [n |-> 0, err |-> "writer full", out |-> out]
    ELSE IF limit < Len(p)
    THEN [n |-> limit, err |-> "writer full", out |-> out \o Take(p, limit)]
    ELSE [n |-> Len(p), err |-> "nil", out |-> out \o p]

\* A writer is a record [bufio, limit, buf, err, failed, out]: out the bytes
\* that reached the sink, limit the sink's limit, failed whether the sink has
\* returned an error.  For a bufio.Writer, buf is its buffer and err its
\* sticky error; for the sink itself buf is empty and err is what the last
\* write returned.

\* bufio.Writer.Flush
bwFlush(w) ==
    IF w.err # "nil" \/ w.buf = <<>> THEN w
    ELSE Bind(lwWrite(w.out, w.limit, w.buf), LAMBDA r :
              IF r.err # "nil"
              THEN [w EXCEPT !.buf = Drop(@, r.n), !.err = r.err,
                             !.failed = TRUE, !.out = r.out]
              ELSE [w EXCEPT !.buf = <<>>, !.out = r.out])

\* bufio.Writer.Write(p) (WriteByte is the write of one byte)
RECURSIVE bwWrite(_, _)
bwWrite(w, p) ==
    IF w.err # "nil" THEN w
    ELSE IF Len(p) <= BufSize - Len(w.buf) THEN [w EXCEPT !.buf = @ \o p]
    ELSE IF w.buf = <<>>
    THEN Bind(lwWrite(w.out, w.limit, p), LAMBDA r :
              bwWrite([w EXCEPT !.err = r.err, !.failed = @ \/ r.err # "nil",
                                !.out = r.out],
                      Drop(p, r.n)))
    ELSE bwWrite(bwFlush([w EXCEPT !.buf = @ \o Take(p, BufSize - Len(w.buf))]),
                 Drop(p, BufSize - Len(w.buf)))

\* w.Write(p)
wWrite(w, p) ==
    IF w.bufio THEN bwWrite(w, p)
    ELSE Bind(lwWrite(w.out, w.limit, p), LAMBDA r :
              [w EXCEPT !.err = r.err, !.failed = @ \/ r.err # "nil", !.out = r.out])

\* writes one after the other, each returning at once when it fails
RECURSIVE writeAll(_, _)
writeAll(w, ps) ==
    IF ps = <<>> THEN w
    ELSE Bind(wWrite(w, Head(ps)), LAMBDA v :
              IF v.err # "nil" THEN v ELSE writeAll(v, Tail(ps)))

\* bytes cut into pieces of the lengths lens
RECURSIVE Pieces(_, _)
Pieces(bytes, lens) ==
    IF lens = <<>> THEN <<>>
    ELSE <<Take(bytes, Head(lens))>> \o Pieces(Drop(bytes, Head(lens)), Tail(lens))

\* the writes writeChunkHeader makes for a valid header: field by field in
\* the revision of chunk.go, the whole header at once in the other
chunkHeaderWrites(ch, rev) ==
    IF rev = "Read"
    THEN Pieces(writeChunkHeader(ch).bytes,
                <<Len(chunkTag), 1, 1, 1, Len(ch.nonce), MaxVarintLen32>>)
    ELSE <<writeChunkHeader(ch).bytes>>

\* the writes writeChunkHeader of package crypto makes
chunkHeaderWrites_crypto(ch) ==
    Pieces(writeChunkHeader_crypto(ch),
           <<Len(chunkTag), 1, MaxVarintLen16, Len(ch.nonce), MaxVarintLen32,
             Len(chunkTag)>>)

\* header.write: the fields are written one by one; at the first write that
\* fails it returns, and what it returns is nil
headerWrite(w, h) ==
    [writeAll(w, Pieces(headerBytes(h),
                        [i \in 1..Len(headerFields) |-> Len(h[headerFields[i]])]))
        EXCEPT !.err = "nil"]

\* A source is a record [rest, pos, hit]: the bytes it still holds, how many
\* it has handed out, and whether it has returned its error.  It fails once
\* rat bytes are out (never, for NoLimit); after that it fails "again" on
\* every read, or it "resume"s, or it reports the end of the input ("eof").
\* A faulty read: it never hands out more than one byte.
srcRead_oneByte(src, rat, rthen, n) ==
    IF n = 0 THEN [got |-> <<>>, err |-> "nil", src |-> src]
    ELSE IF src.rest = <<>> THEN [got |-> <<>>, err |-> "EOF", src |-> src]
    ELSE [got |-> Take(src.rest, 1), err |-> "nil",
          src |-> [src EXCEPT !.rest = Drop(@, 1), !.pos = @ + 1]]

\* One r.Read(buf) with len(buf) = n: [got, err, src]
srcRead(src, rat, rthen, n) ==
    IF n = 0 THEN [got |-> <<>>, err |-> "nil", src |-> src]
    ELSE IF src.hit /\ rthen = "eof" THEN [got |-> <<>>, err |-> "EOF", src |-> src]
    ELSE IF src.pos = rat /\ (~src.hit \/ rthen = "again")
    THEN [got |-> <<>>, err |-> "io error", src |-> [src EXCEPT !.hit = TRUE]]
    ELSE IF src.rest = <<>> THEN [got |-> <<>>, err |-> "EOF", src |-> src]
    ELSE Bind(IF rat > src.pos /\ ~src.hit THEN Min(n, rat - src.pos) ELSE n,
              LAMBDA k : [got |-> Take(src.rest, k), err |-> "nil",
                          src |-> [src EXCEPT !.rest = Drop(@, k),
                                              !.pos = @ + Min(k, Len(src.rest))]])

\* io.ReadFull(r, buf) with len(buf) = n on such a source, acc being what
\* it has read so far
RECURSIVE srcReadAtLeast(_, _, _, _, _)
srcReadAtLeast(src, rat, rthen, n, acc) ==
    IF Len(acc) >= n THEN [got |-> acc, err |-> "nil", src |-> src]
    ELSE Bind(srcRead(src, rat, rthen, n - Len(acc)), LAMBDA r :
              IF r.err = "nil"
              THEN srcReadAtLeast(r.src, rat, rthen, n, acc \o r.got)
              ELSE [got |-> acc,
                    err |-> IF Len(acc) > 0 /\ r.err = "EOF" THEN "ErrUnexpectedEOF"
                            ELSE r.err,
                    src |-> r.src])

\* ================================================================ state
VARIABLES
    pkg,            \* "cryptod" or "crypto": the package that runs
    hrev,           \* how readChunkHeader reads a field: "Read" or "ReadFull"
    skey,           \* Encrypt's key
    plain,          \* the plaintext Encrypt is given
    extraIn,        \* the extra metadata Encrypt is given (cryptod)
    fault,          \* how the plaintext source and the two sinks fail
    reader,         \* Encrypt: what the plaintext source still holds
    extra,          \* Encrypt: its parameter extra, set to nil once written
    ctr,            \* Encrypt: the chunk counter
    nonce,          \* Encrypt: the reused nonce buffer
    rand,           \* Encrypt: what rand.Reader hands out on its next reads
    bHeaderWritten, \* Encrypt (crypto): the stream header is out
    epc,            \* Encrypt: "start", "loop", "tomb", "done", "err"
    pass,           \* Encrypt: the parity of the passes through its loop
    out,            \* Encrypt: the bytes that reached the ciphertext sink,
                    \* then those its bufio.Writer still holds
    bw,             \* Encrypt: its writer: what it holds, its error, and
                    \* whether a write to the sink has failed
    rhit,           \* Encrypt: the plaintext source has returned its error
    marks,          \* where each chunk Encrypt emitted lies in out
    attack,         \* what was done to the stream on its way to Decrypt
    stream,         \* Decrypt: what the ciphertext source still holds
    bbuf,           \* Decrypt (cryptod): what rctx.br has buffered
    dkey,           \* Decrypt's key
    rst,            \* Decrypt: rctx.st, the scheme of the current cipher
    bufCap,         \* Decrypt: the capacity of its buffer (rctx.buf, buf)
    sink,           \* Decrypt: the bytes that reached the plaintext sink,
                    \* then those its bufio.Writer still holds
    dbw,            \* Decrypt: its writer, as bw
    dextra,         \* Decrypt: the extra metadata it returns
    nopened,        \* Decrypt: chunks read and decrypted so far
    dpc,            \* Decrypt: "idle", "start", "loop", "done", "err", "panic"
    upc,            \* a header on its own: "off", "init", "written", "failed", "ready",
                    \* "read", "validated"
    uh,             \* the header that is written or validated
    uw,             \* what the write returned and where its bytes are
    ucut,           \* how the source of the read was made
    usrc,           \* the source the read is given, in segments
    ures,           \* what the read or validate returned
    fpc,            \* DecryptFile or cmd: "off", "init", "decrypting",
                    \* "returned", "panic"
    fargs,          \* the call: the entry point, the working directory,
                    \* fileOut, the key
    files,          \* the files there are besides the input file, with
                    \* their contents
    fret            \* the locals fileOut and bTempUsed, then what the call
                    \* returned

vars == <<pkg, hrev, skey, plain, extraIn, fault, reader, extra, ctr, nonce, rand,
          bHeaderWritten, epc, pass, out, bw, rhit, marks, attack, stream, bbuf, dkey,
          rst, bufCap, sink, dbw, dextra, nopened, dpc, upc, uh, uw, ucut, usrc, ures,
          fpc, fargs, files, fret>>

encInputs == <<pkg, hrev, skey, plain, extraIn, fault>>
encVars == <<reader, extra, ctr, nonce, rand, bHeaderWritten, epc, pass, out, bw, rhit,
            marks>>
decVars == <<stream, bbuf, dkey, rst, bufCap, sink, dbw, dextra, nopened, dpc>>
unitVars == <<upc, uh, uw, ucut, usrc, ures>>
fileVars == <<fpc, fargs, files, fret>>

noAttack == [kind |-> "pending", a |-> 0, b |-> 0, given |-> <<>>]

\* a source and sinks that never fail
noFault == [wlimit |-> NoLimit, rat |-> NoLimit, rthen |-> "resume", dlimit |-> NoLimit]

\* a writer that holds nothing and has not failed
idleWriter == [buf |-> <<>>, err |-> "nil", failed |-> FALSE]

\* Encrypt's writer as the state has it: bw over the sink in package
\* cryptod, the sink itself in package crypto
encWriter ==
    [bufio |-> pkg = "cryptod", limit |-> fault.wlimit, buf |-> bw.buf,
     err |-> bw.err, failed |-> bw.failed,
     out |-> Take(out, Len(out) - Len(bw.buf))]

\* Decrypt's writer as the state has it
decWriter ==
    [bufio |-> pkg = "cryptod", limit |-> fault.dlimit, buf |-> dbw.buf,
     err |-> dbw.err, failed |-> dbw.failed,
     out |-> Take(sink, Len(sink) - Len(dbw.buf))]

\* the deferred bw.Flush() of package cryptod, its error dropped
atReturn(w) == IF w.bufio THEN bwFlush(w) ELSE w

\* the writer w is what Encrypt's writer has become
putOut(w) ==
    /\ out' = w.out \o w.buf
    /\ bw' = [buf |-> w.buf, err |-> w.err, failed |-> w.failed]

\* the writer w is what Decrypt's writer has become
putPlain(w) ==
    /\ sink' = w.out \o w.buf
    /\ dbw' = [buf |-> w.buf, err |-> w.err, failed |-> w.failed]

\* Encrypt's plaintext source as the state has it
encSource == [rest |-> reader, pos |-> Len(plain) - Len(reader), hit |-> rhit]

Init ==
    /\ pkg \in {"cryptod", "crypto"}
    /\ hrev \in IF pkg = "cryptod" THEN {"Read", "ReadFull"} ELSE {"Read"}
    /\ skey \in Keys
    /\ plain \in SeqsUpTo(PlainBytes, MaxPlainLen)
    /\ extraIn \in IF pkg = "cryptod" THEN SeqsUpTo(ExtraBytes, ChunkSize + 1)
                   ELSE {<<>>}
    /\ fault = noFault
    /\ reader = plain
    /\ extra = extraIn
    /\ ctr = 0
    /\ nonce = <<>>
    /\ rand \in RandSources
    /\ bHeaderWritten = FALSE
    /\ epc = "start"
    /\ out = <<>>
    /\ bw = idleWriter
    /\ rhit = FALSE
    /\ pass = FALSE
    /\ marks = <<>>
    /\ attack = noAttack
    /\ stream = <<>>
    /\ bbuf = <<>>
    /\ dkey = 0
    /\ rst = 0
    /\ bufCap = 0
    /\ sink = <<>>
    /\ dbw = idleWriter
    /\ dextra = <<>>
    /\ nopened = 0
    /\ dpc = "idle"
    /\ upc = "off"
    /\ uh = <<>>
    /\ uw = <<>>
    /\ ucut = <<>>
    /\ usrc = <<>>
    /\ ures = <<>>
    /\ fpc = "off"
    /\ fargs = <<>>
    /\ files = <<>>
    /\ fret = <<>>

\* ============================================================== Encrypt
\* Encrypt up to its loop: the size check of extra (cryptod), the cipher,
\* the buffers, ctr = 1.
EncryptStart ==
    /\ epc = "start"
    /\ IF pkg = "cryptod" /\ Len(extra) > ChunkSize
       THEN /\ epc' = "err"
            /\ UNCHANGED <<ctr, nonce>>
       ELSE /\ epc' = "loop"
            /\ ctr' = 1
            /\ nonce' = Repeat(0, NonceSize)
    /\ UNCHANGED <<reader, extra, rand, bHeaderWritten, pass, out, bw, rhit, marks>>
    /\ UNCHANGED <<unitVars, fileVars, encInputs, attack, decVars>>

\* ctr is a uint32 and clen is uint32(len(c)); a run of the model seals at
\* most MaxPlainLen + 1 chunks of at most ChunkSize + Overhead bytes, far
\* from 2^32, so neither wraps.

\* A faulty nonce: the counter is left out.
chunkNonce_noCtr(buf, c, r) ==
    [i \in 1..Len(buf) |-> IF i > MaxVarintLen32 THEN r ELSE buf[i]]

\* A faulty nonce: the counter is written after it was incremented.
chunkNonce_incFirst(buf, c, r) ==
    PutInto([i \in 1..Len(buf) |-> IF i > MaxVarintLen32 THEN r ELSE buf[i]],
            PutUvarint(c + 1))

\* the nonce of a sealed chunk: random bytes past the counter field, then
\* the counter written over the front of the buffer
chunkNonce(buf, c, r) ==
    PutInto([i \in 1..Len(buf) |-> IF i > MaxVarintLen32 THEN r ELSE buf[i]],
            PutUvarint(c))

mark(off, hlen, plen, tomb) ==
    [off |-> off, hlen |-> hlen, plen |-> plen, tomb |-> tomb]

\* A faulty choice of the chunk type: the extra data goes out as data.
chunkTypeOf_data(fromExtra) == chunkTypeData

\* the chunk type of a pass: extra while extra data is left, else data
chunkTypeOf(fromExtra) == IF fromExtra THEN chunkTypeExtra ELSE chunkTypeData

\* One pass of Encrypt's loop, package cryptod.  Whenever Encrypt returns,
\* the deferred bw.Flush() runs and what it returns is dropped.
EncryptLoop_cryptod ==
    /\ pkg = "cryptod"
    /\ epc = "loop"
    /\ pass' = ~pass
    /\ \E rd \in {srcReadAtLeast(encSource, fault.rat, fault.rthen, ChunkSize, <<>>)} :
       LET fromExtra == Len(extra) > 0
           p == IF fromExtra THEN Take(extra, ChunkSize) ELSE rd.got
           ct == chunkTypeOf(fromExtra)
           readErr == IF fromExtra THEN "nil" ELSE rd.err
           n == Len(p)
           nn == chunkNonce(nonce, ctr, Head(rand))
           c == Seal(getGCM(skey, schemeAES256GCM).gcm, nn, p, <<>>)
           ch == [ct |-> ct, st |-> schemeAES256GCM, nonce |-> nn, dataSize |-> Len(c)]
       IN
       /\ extra' = IF fromExtra THEN <<>> ELSE extra
       /\ reader' = IF fromExtra THEN reader ELSE rd.src.rest
       /\ rhit' = IF fromExtra THEN rhit ELSE rd.src.hit
       /\ IF n > 0
          THEN /\ nonce' = nn
               /\ rand' = Tail(rand)
               /\ ctr' = ctr + 1
               /\ IF Len(c) > 0
                  THEN IF writeChunkHeader(ch).err # "nil"
                       THEN /\ epc' = "err"
                            /\ putOut(atReturn(encWriter))
                            /\ UNCHANGED marks
                       ELSE \E w \in {writeAll(encWriter,
                                               chunkHeaderWrites(ch, hrev) \o <<c>>)} :
                            IF w.err # "nil"
                            THEN /\ epc' = "err"
                                 /\ putOut(atReturn(w))
                                 /\ UNCHANGED marks
                            ELSE /\ putOut(w)
                                 /\ marks' = Append(marks,
                                        mark(Len(out), Len(writeChunkHeader(ch).bytes),
                                             Len(c), FALSE))
                                 /\ epc' = IF readErr = "EOF" THEN "tomb" ELSE "loop"
                  ELSE /\ epc' = IF readErr = "EOF" THEN "tomb" ELSE "loop"
                       /\ UNCHANGED <<out, bw, marks>>
          ELSE /\ epc' = IF readErr = "EOF" THEN "tomb" ELSE "loop"
               /\ UNCHANGED <<nonce, rand, ctr, out, bw, marks>>
    /\ UNCHANGED bHeaderWritten
    /\ UNCHANGED <<unitVars, fileVars, encInputs, attack, decVars>>

\* One pass of Encrypt's loop, package crypto.  writeHeader reports the
\* stream header as written whenever header.write returns nil.
EncryptLoop_crypto ==
    /\ pkg = "crypto"
    /\ epc = "loop"
    /\ pass' = ~pass
    /\ \E rd \in {srcRead(encSource, fault.rat, fault.rthen, ChunkSize)} :
       LET p == rd.got
           readErr == rd.err
           n == Len(p)
           nn == chunkNonce(nonce, ctr, Head(rand))
           c == Seal(getGCM_crypto(skey).gcm, nn, p, <<>>)
           clen == Len(c)
           ch == [nonce |-> nn, size |-> clen, tomb |-> FALSE]
       IN
       /\ reader' = rd.src.rest
       /\ rhit' = rd.src.hit
       /\ IF n > 0
          THEN /\ nonce' = nn
               /\ rand' = Tail(rand)
               /\ ctr' = ctr + 1
               /\ IF clen > 0
                  THEN \E wh \in {IF bHeaderWritten THEN encWriter
                                  ELSE headerWrite(encWriter, headerInit)} :
                       \E w \in {writeAll(wh, chunkHeaderWrites_crypto(ch) \o <<c>>)} :
                       /\ bHeaderWritten' = TRUE
                       /\ putOut(w)
                       /\ IF w.err # "nil"
                          THEN /\ epc' = "err"
                               /\ UNCHANGED marks
                          ELSE /\ marks' = Append(marks,
                                      mark(Len(w.out) - Len(c) - Len(writeChunkHeader_crypto(ch)),
                                           Len(writeChunkHeader_crypto(ch)), Len(c), FALSE))
                               /\ epc' = IF readErr = "EOF" THEN "tomb" ELSE "loop"
                  ELSE /\ epc' = IF readErr = "EOF" THEN "tomb" ELSE "loop"
                       /\ UNCHANGED <<bHeaderWritten, out, bw, marks>>
          ELSE /\ epc' = IF readErr = "EOF" THEN "tomb" ELSE "loop"
               /\ UNCHANGED <<nonce, rand, ctr, bHeaderWritten, out, bw, marks>>
    /\ UNCHANGED extra
    /\ UNCHANGED <<unitVars, fileVars, encInputs, attack, decVars>>

\* After the loop: the tomb chunk header under a fresh random nonce, and
\* Encrypt returns what writeChunkHeader returned.
EncryptTomb ==
    /\ epc = "tomb"
    /\ LET nn == Repeat(Head(rand), Len(nonce))
           ch == [ct |-> chunkTypeTomb, st |-> schemeAES256GCM,
                  nonce |-> nn, dataSize |-> 0]
           chc == [nonce |-> nn, size |-> 0, tomb |-> TRUE]
           hlen == IF pkg = "cryptod" THEN Len(writeChunkHeader(ch).bytes)
                   ELSE Len(writeChunkHeader_crypto(chc))
       IN
       /\ nonce' = nn
       /\ rand' = Tail(rand)
       /\ IF pkg = "cryptod" /\ writeChunkHeader(ch).err # "nil"
          THEN /\ epc' = "err"
               /\ putOut(atReturn(encWriter))
               /\ UNCHANGED marks
          ELSE \E w \in {writeAll(encWriter,
                                  IF pkg = "cryptod" THEN chunkHeaderWrites(ch, hrev)
                                  ELSE chunkHeaderWrites_crypto(chc))} :
               /\ putOut(atReturn(w))
               /\ IF w.err # "nil"
                  THEN /\ epc' = "err"
                       /\ UNCHANGED marks
                  ELSE /\ marks' = Append(marks, mark(Len(out), hlen, 0, TRUE))
                       /\ epc' = "done"
    /\ UNCHANGED <<reader, extra, ctr, bHeaderWritten, pass, rhit>>
    /\ UNCHANGED <<unitVars, fileVars, encInputs, attack, decVars>>

\* ==================================================== the stream in transit
\* Between a successful Encrypt and Decrypt the stream is handed over
\* unchanged, or changed once in one of the ways the tests and the README
\* name.  attack records what was done and the bytes Decrypt was given.
lastMark == marks[Len(marks)]

\* the chunks before the terminator
NonTomb == {i \in 1..Len(marks) : ~marks[i].tomb}

chunkEnd(i) == marks[i].off + marks[i].hlen + marks[i].plen

chunkBytes(i) == SubSeq(out, marks[i].off + 1, chunkEnd(i))

\* where the fields of chunk i's header lie in out (1-based)
kindPos(i) == marks[i].off + Len(chunkTag) + 1

lenPos(i) ==
    IF pkg = "cryptod" THEN marks[i].off + marks[i].hlen - MaxVarintLen32 + 1
    ELSE marks[i].off + marks[i].hlen - Len(chunkTag) - MaxVarintLen32 + 1

noncePos(i) == lenPos(i) - NonceSize

otherKinds(i) ==
    IF pkg = "cryptod"
    THEN {chunkTypeData, chunkTypeExtra, chunkTypeTomb} \ {out[kindPos(i)].v}
    ELSE {chunkTypeTomb_crypto}

maxChunkSizeSanity == (ChunkSize + Overhead) * 2

InTransit == epc = "done" /\ dpc = "idle"

Handover(kind, a, b, bytes, key) ==
    /\ attack' = [kind |-> kind, a |-> a, b |-> b, given |-> bytes]
    /\ stream' = bytes
    /\ dkey' = key
    /\ dpc' = "start"
    /\ UNCHANGED <<bbuf, rst, bufCap, sink, dbw, dextra, nopened>>
    /\ UNCHANGED <<unitVars, fileVars, encInputs, encVars>>

\* the stream as it reached Encrypt's sink, the key Encrypt used
Deliver == InTransit /\ Handover("none", 0, 0, encWriter.out, skey)

\* the stream as Encrypt wrote it, another key
WrongKey ==
    /\ InTransit
    /\ \E k \in Keys \ {skey} : Handover("wrongkey", k, 0, out, k)

\* one ciphertext byte of one chunk altered
TamperPayload ==
    /\ InTransit
    /\ \E i \in NonTomb : \E j \in 1..marks[i].plen :
           Handover("flip", i, j,
                    [out EXCEPT ![marks[i].off + marks[i].hlen + j] = Tampered], skey)

\* a chunk header's kind byte rewritten to another kind
RewriteKind ==
    /\ InTransit
    /\ \E i \in NonTomb : \E k \in otherKinds(i) :
           Handover("kind", i, k, [out EXCEPT ![kindPos(i)] = B(k)], skey)

\* one byte of a chunk header's nonce rewritten
RewriteNonce ==
    /\ InTransit
    /\ \E i \in NonTomb : \E j \in 1..NonceSize :
           Handover("nonce", i, j,
                    [out EXCEPT ![noncePos(i) + j - 1] = B((@.v + 1) % 256)], skey)

\* a chunk header's declared length rewritten
RewriteLength ==
    /\ InTransit
    /\ \E i \in NonTomb : \E n \in (0..(maxChunkSizeSanity + 1)) \ {marks[i].plen} :
           Handover("len", i, n,
                    [k \in 1..Len(out) |->
                        IF k >= lenPos(i) /\ k < lenPos(i) + MaxVarintLen32
                        THEN B(PutInto(Repeat(0, MaxVarintLen32), PutUvarint(n))[k - lenPos(i) + 1])
                        ELSE out[k]],
                    skey)

\* two chunks swapped
SwapChunks ==
    /\ InTransit
    /\ \E i \in NonTomb : \E j \in NonTomb :
           /\ i < j
           /\ Handover("swap", i, j,
                       SubSeq(out, 1, marks[i].off) \o chunkBytes(j)
                       \o SubSeq(out, chunkEnd(i) + 1, marks[j].off) \o chunkBytes(i)
                       \o SubSeq(out, chunkEnd(j) + 1, Len(out)), skey)

\* one chunk removed
DeleteChunk ==
    /\ InTransit
    /\ \E i \in NonTomb :
           Handover("delete", i, 0,
                    SubSeq(out, 1, marks[i].off) \o SubSeq(out, chunkEnd(i) + 1, Len(out)),
                    skey)

\* a second copy of one chunk inserted after it
DuplicateChunk ==
    /\ InTransit
    /\ \E i \in NonTomb :
           Handover("dup", i, 0,
                    SubSeq(out, 1, chunkEnd(i)) \o chunkBytes(i)
                    \o SubSeq(out, chunkEnd(i) + 1, Len(out)), skey)

\* the stream cut before its terminator chunk: its first n bytes remain
Truncate ==
    /\ InTransit
    /\ \E n \in 0..lastMark.off : Handover("trunc", n, 0, SubSeq(out, 1, n), skey)

\* the stream with bytes after its terminator chunk: one stray byte, or a
\* second copy of the stream's first chunk
AppendTrailing ==
    /\ InTransit
    /\ \E n \in {0, 1} :
           Handover("trail", n, 0,
                    out \o (IF n = 0 THEN <<B(0)>> ELSE chunkBytes(1)), skey)

\* the terminator chunk header damaged behind its kind byte: the stream cut
\* n bytes into the header, or (n = 0) the header's scheme byte or declared
\* length rewritten to a value readChunkHeader rejects
DamageTomb ==
    /\ InTransit
    /\ \/ \E n \in (Len(chunkTag) + 1)..(lastMark.hlen - 1) :
              Handover("tombcut", n, 0, SubSeq(out, 1, lastMark.off + n), skey)
       \/ /\ pkg = "cryptod"
          /\ Handover("tombscheme", 0, 0,
                      [out EXCEPT ![kindPos(Len(marks)) + 1] = B(badType)], skey)
       \/ Handover("tomblen", 0, 0,
                   [k \in 1..Len(out) |->
                       IF k >= lenPos(Len(marks)) /\ k < lenPos(Len(marks)) + MaxVarintLen32
                       THEN B(PutInto(Repeat(0, MaxVarintLen32),
                                      PutUvarint(maxChunkSizeSanity + 1))[k - lenPos(Len(marks)) + 1])
                       ELSE out[k]],
                   skey)

\* (package crypto) the chunks of the stream without the stream header
StripHeader ==
    /\ InTransit
    /\ pkg = "crypto" /\ bHeaderWritten
    /\ Handover("strip", 0, 0, Drop(out, Len(headerBytes(headerInit))), skey)

\* (package crypto) one byte of the stream header altered
CorruptHeader ==
    /\ InTransit
    /\ pkg = "crypto" /\ bHeaderWritten
    /\ \E j \in 1..Len(headerBytes(headerInit)) :
           Handover("header", j, 0, [out EXCEPT ![j] = B((@.v + 1) % 256)], skey)

\* ============================================================== Decrypt
\* Decrypt up to its loop: the cipher for the key, rctx, and (package
\* crypto) the stream header read and validated.
DecryptStart ==
    /\ dpc = "start"
    /\ IF pkg = "cryptod"
       THEN /\ rst' = schemeAES256GCM
            /\ dpc' = "loop"
            /\ UNCHANGED stream
       ELSE LET hr == headerRead(stream) IN
            /\ stream' = hr.rest
            /\ dpc' = IF hr.err # "nil" THEN "err" ELSE "loop"
            /\ UNCHANGED rst
    /\ bufCap' = ChunkSize + Overhead
    /\ UNCHANGED <<bbuf, dkey, sink, dbw, dextra, nopened>>
    /\ UNCHANGED <<unitVars, fileVars, encInputs, encVars, attack>>

\* A faulty readEncryptedChunk: the error of gcm.Open is dropped.
readEncryptedChunk_uncheckedOpen(br, gcm, ch) ==
    IF ch.dataSize > 0
    THEN LET rd == brReadFull(br, ch.dataSize) IN
         IF rd.err # "nil" THEN [pbuf |-> <<>>, err |-> rd.err, br |-> rd.br]
         ELSE LET o == Open(gcm, ch.nonce, rd.got, <<>>) IN
              [pbuf |-> o.p, err |-> "nil", br |-> rd.br]
    ELSE [pbuf |-> <<>>, err |-> "nil", br |-> br]

\* readEncryptedChunk(rctx, ch): [pbuf, err, br]
readEncryptedChunk(br, gcm, ch) ==
    IF ch.dataSize > 0
    THEN LET rd == brReadFull(br, ch.dataSize) IN
         IF rd.err # "nil" THEN [pbuf |-> <<>>, err |-> rd.err, br |-> rd.br]
         ELSE LET o == Open(gcm, ch.nonce, rd.got, <<>>) IN
              [pbuf |-> o.p, err |-> o.err, br |-> rd.br]
    ELSE [pbuf |-> <<>>, err |-> "nil", br |-> br]

\* A faulty loop exit: a tomb chunk is taken for a chunk with a payload.
exitOf_tombIsChunk(err, tomb) ==
    IF err # "nil" /\ ~tomb THEN "err" ELSE "loop"

\* A faulty loop exit: the end of the input counts as the end of the stream.
exitOf_eofEnds(err, tomb) ==
    IF err = "EOF" THEN "done"
    ELSE IF err # "nil" /\ ~tomb THEN "err"
    ELSE IF tomb THEN "done"
    ELSE "loop"

\* How a pass of Decrypt's loop goes on once the chunk header is read:
\* "err" returns the header's error, "done" leaves the loop at a tomb chunk,
\* "loop" goes on to the chunk's payload.
exitOf(err, tomb) ==
    IF err # "nil" /\ ~tomb THEN "err"
    ELSE IF tomb THEN "done"
    ELSE "loop"

\* A faulty switch: the plaintext of either kind goes to the other place.
handleChunk_swapped(ct, pbuf, w, ext) ==
    IF ct = chunkTypeExtra
    THEN Bind(wWrite(w, pbuf), LAMBDA v : [w |-> v, extra |-> ext, err |-> v.err])
    ELSE IF ct = chunkTypeData
    THEN [w |-> w, extra |-> ext \o pbuf, err |-> "nil"]
    ELSE [w |-> w, extra |-> ext, err |-> "invalid chunk type"]

\* A faulty switch: the plaintext of a data chunk is written twice.
handleChunk_twice(ct, pbuf, w, ext) ==
    IF ct = chunkTypeExtra
    THEN [w |-> w, extra |-> ext \o pbuf, err |-> "nil"]
    ELSE IF ct = chunkTypeData
    THEN Bind(wWrite(w, pbuf \o pbuf), LAMBDA v : [w |-> v, extra |-> ext, err |-> v.err])
    ELSE [w |-> w, extra |-> ext, err |-> "invalid chunk type"]

\* Decrypt's switch on the chunk type: where the plaintext of a chunk goes,
\* w being the plaintext writer: [w, extra, err]
handleChunk(ct, pbuf, w, ext) ==
    IF ct = chunkTypeExtra
    THEN [w |-> w, extra |-> ext \o pbuf, err |-> "nil"]
    ELSE IF ct = chunkTypeData
    THEN Bind(wWrite(w, pbuf), LAMBDA v : [w |-> v, extra |-> ext, err |-> v.err])
    ELSE [w |-> w, extra |-> ext, err |-> "invalid chunk type"]

\* what an error leaves of Decrypt's position
failed(err) == IF err = "panic" THEN "panic" ELSE "err"

\* A faulty buffer: a new one for every chunk, as long as the last and this.
ensureCap_grows(cap, size) == cap + size

\* the capacity of the buffer once it is "big enough" for size bytes: a new
\* buffer of size bytes if the capacity is less, else the buffer it was;
\* gcm.Open(cbuf[:0], ...) returns a slice of the same buffer
ensureCap(cap, size) == IF cap < size THEN size ELSE cap

\* One pass of Decrypt's loop, package cryptod.  Whenever Decrypt returns,
\* the deferred bw.Flush() runs and what it returns is dropped; a panic
\* runs it too.
DecryptLoop_cryptod ==
    /\ pkg = "cryptod"
    /\ dpc = "loop"
    /\ \E r \in {IF hrev = "Read"
                 THEN readChunkHeader_Read([buf |-> bbuf, src |-> stream], maxChunkSizeSanity)
                 ELSE readChunkHeader([buf |-> bbuf, src |-> stream], maxChunkSizeSanity)} :
       \E g \in {IF r.h.st # rst THEN getGCM(dkey, r.h.st) ELSE getGCM(dkey, rst)} :
       LET x == exitOf(r.err, r.h.ct = chunkTypeTomb) IN
       IF x # "loop"
       THEN /\ dpc' = x
            /\ stream' = r.br.src
            /\ bbuf' = r.br.buf
            /\ putPlain(atReturn(decWriter))
            /\ UNCHANGED <<rst, bufCap, dextra, nopened>>
       ELSE IF g.err # "nil"
       THEN /\ dpc' = "err"
            /\ stream' = r.br.src
            /\ bbuf' = r.br.buf
            /\ putPlain(atReturn(decWriter))
            /\ UNCHANGED <<rst, bufCap, dextra, nopened>>
       ELSE \E e \in {readEncryptedChunk(r.br, g.gcm, r.h)} :
            \E hc \in {handleChunk(r.h.ct, e.pbuf, decWriter, dextra)} :
            /\ rst' = r.h.st
            /\ bufCap' = ensureCap(bufCap, r.h.dataSize)
            /\ stream' = e.br.src
            /\ bbuf' = e.br.buf
            /\ IF e.err # "nil"
               THEN /\ dpc' = failed(e.err)
                    /\ putPlain(atReturn(decWriter))
                    /\ UNCHANGED <<dextra, nopened>>
               ELSE /\ nopened' = nopened + 1
                    /\ dextra' = hc.extra
                    /\ IF hc.err # "nil"
                       THEN /\ dpc' = "err"
                            /\ putPlain(atReturn(hc.w))
                       ELSE /\ dpc' = "loop"
                            /\ putPlain(hc.w)
    /\ UNCHANGED dkey
    /\ UNCHANGED <<unitVars, fileVars, encInputs, encVars, attack>>

\* One pass of Decrypt's loop, package crypto.
DecryptLoop_crypto ==
    /\ pkg = "crypto"
    /\ dpc = "loop"
    /\ \E r \in {readChunkHeader_crypto(stream, maxChunkSizeSanity)} :
       LET x == exitOf(r.err, r.h.tomb) IN
       IF x # "loop"
       THEN /\ dpc' = x
            /\ stream' = r.rest
            /\ UNCHANGED <<bufCap, sink, dbw, nopened>>
       ELSE \E rd \in {Read(r.rest, r.h.size)} :
            \E o \in {Open(getGCM_crypto(dkey).gcm, r.h.nonce, rd.got, <<>>)} :
            /\ bufCap' = ensureCap(bufCap, r.h.size)
            /\ stream' = rd.rest
            /\ IF Len(rd.got) # r.h.size
               THEN /\ dpc' = "err"
                    /\ UNCHANGED <<sink, dbw, nopened>>
               ELSE IF o.err # "nil"
               THEN /\ dpc' = failed(o.err)
                    /\ UNCHANGED <<sink, dbw, nopened>>
               ELSE \E w \in {wWrite(decWriter, o.p)} :
                    /\ putPlain(w)
                    /\ nopened' = nopened + 1
                    /\ dpc' = IF w.err # "nil" THEN "err" ELSE "loop"
    /\ UNCHANGED <<bbuf, dkey, rst, dextra>>
    /\ UNCHANGED <<unitVars, fileVars, encInputs, encVars, attack>>

Next ==
    \/ EncryptStart
    \/ EncryptLoop_cryptod
    \/ EncryptLoop_crypto
    \/ EncryptTomb
    \/ Deliver
    \/ WrongKey
    \/ TamperPayload
    \/ RewriteKind
    \/ RewriteNonce
    \/ RewriteLength
    \/ SwapChunks
    \/ DeleteChunk
    \/ DuplicateChunk
    \/ Truncate
    \/ AppendTrailing
    \/ DamageTomb
    \/ StripHeader
    \/ CorruptHeader
    \/ DecryptStart
    \/ DecryptLoop_cryptod
    \/ DecryptLoop_crypto

Spec == Init /\ [][Next]_vars

\* ============================================ failing sources and sinks
\* Encrypt and Decrypt over a plaintext source that fails and over sinks
\* that fail, the stream handed over as it reached Encrypt's sink.

\* the limits of a sink: none, errorWriter, and limits of a LimitedWriter
SinkLimits == {NoLimit, 0, 1, 10, 23}

\* The ways the source and the sinks fail.  The source fails once rat bytes
\* are out.
Faults ==
    [wlimit : SinkLimits, rat : {NoLimit, 0, 1, 3},
     rthen : {"again", "resume", "eof"}, dlimit : {NoLimit, 0, 1}]

FaultInit ==
    /\ pkg \in {"cryptod", "crypto"}
    /\ hrev \in IF pkg = "cryptod" THEN {"Read", "ReadFull"} ELSE {"Read"}
    /\ skey = 1
    /\ plain \in {Repeat(1, n) : n \in 0..MaxPlainLen}
    /\ extraIn \in IF pkg = "cryptod" THEN {<<>>, Repeat(7, 1)} ELSE {<<>>}
    /\ fault \in {f \in Faults : f.rat = NoLimit => f.rthen = "resume"}
    /\ reader = plain
    /\ extra = extraIn
    /\ ctr = 0
    /\ nonce = <<>>
    /\ rand = [k \in 1..MaxReads |-> k % 2]
    /\ bHeaderWritten = FALSE
    /\ epc = "start"
    /\ out = <<>>
    /\ bw = idleWriter
    /\ rhit = FALSE
    /\ pass = FALSE
    /\ marks = <<>>
    /\ attack = noAttack
    /\ stream = <<>>
    /\ bbuf = <<>>
    /\ dkey = 0
    /\ rst = 0
    /\ bufCap = 0
    /\ sink = <<>>
    /\ dbw = idleWriter
    /\ dextra = <<>>
    /\ nopened = 0
    /\ dpc = "idle"
    /\ upc = "off"
    /\ uh = <<>>
    /\ uw = <<>>
    /\ ucut = <<>>
    /\ usrc = <<>>
    /\ ures = <<>>
    /\ fpc = "off"
    /\ fargs = <<>>
    /\ files = <<>>
    /\ fret = <<>>

FaultNext ==
    \/ EncryptStart
    \/ EncryptLoop_cryptod
    \/ EncryptLoop_crypto
    \/ EncryptTomb
    \/ Deliver
    \/ DecryptStart
    \/ DecryptLoop_cryptod
    \/ DecryptLoop_crypto

FaultSpec == FaultInit /\ [][FaultNext]_vars

\* A step of Encrypt: it enters the loop or fails before it, makes a pass
\* through the loop, or writes the tomb chunk header and returns.
EncryptRuns ==
    \/ epc = "start" /\ epc' \in {"loop", "err"} /\ pass' = pass
    \/ epc = "loop" /\ epc' \in {"loop", "tomb", "err"} /\ pass' = ~pass
    \/ epc = "tomb" /\ epc' \in {"done", "err"} /\ pass' = pass

\* Encrypt runs on the calling goroutine: while it has not returned, it
\* takes its next step.
FaultLive == FaultInit /\ [][FaultNext]_vars /\ WF_<<epc, pass>>(EncryptRuns)

\* ================================================== the headers on their own
\* The header functions called the way the unit tests call them: a header is
\* written to a bytes.Buffer, or validated; a source is made from the buffer
\* or from the header's bytes; the header is read back from that source.
\* pkg selects the header: the chunk header of package cryptod, in the
\* revision hrev, or the stream header of package crypto.

\* the values a stream header field takes: the valid one, zeros, one byte off
FieldInputs(f) == {f, Repeat(0, Len(f)), [f EXCEPT ![Len(f)] = (@ + 1) % 256]}

HeaderInputs ==
    [size : FieldInputs(headerInit.size), magic : FieldInputs(headerInit.magic),
     scheme : FieldInputs(headerInit.scheme), verMaj : FieldInputs(headerInit.verMaj),
     verMin : FieldInputs(headerInit.verMin)]

ChunkHeaderInputs ==
    [ct : {chunkTypeData, chunkTypeExtra, chunkTypeTomb, badType},
     st : {schemeAES256GCM, badType},
     nonce : {<<>>, <<5>>, [i \in 1..NonceSize |-> i]},
     dataSize : {0, 1, 127, 128, UnitMaxChunkSize, UnitMaxChunkSize + 1}]

\* the layout writeChunkHeader gives the fields of a header
chunkHeaderBytes(ch) ==
    Bs(chunkTag \o <<ch.ct, ch.st, Len(ch.nonce) % 256>> \o ch.nonce
       \o PutInto(Repeat(0, MaxVarintLen32), PutUvarint(ch.dataSize)))

\* writeChunkHeader(ch, w) with w a bytes.Buffer: [err, bytes, held], bytes
\* being what w holds afterwards.  The revision of chunk.go writes through a
\* bufio.Writer of its own and never flushes it: the header is held there.
writeChunkHeader_sink(ch, rev) ==
    Bind(writeChunkHeader(ch), LAMBDA w :
         IF rev = "Read"
         THEN [err |-> w.err, bytes |-> <<>>, held |-> w.bytes]
         ELSE [err |-> w.err, bytes |-> w.bytes, held |-> <<>>])

\* the bytes of the header uh as they stand in a stream
wire == IF pkg = "cryptod" THEN chunkHeaderBytes(uh) ELSE headerBytes(uh)

\* length fields of five varint bytes whose value is k + g * 2^28
LengthField(k, g) == <<128 + k, 128, 128, 128, g>>

UnitInit ==
    /\ pkg \in {"cryptod", "crypto"}
    /\ hrev \in IF pkg = "cryptod" THEN {"Read", "ReadFull"} ELSE {"Read"}
    /\ skey = 1
    /\ plain = <<>>
    /\ extraIn = <<>>
    /\ fault = noFault
    /\ reader = <<>>
    /\ extra = <<>>
    /\ ctr = 0
    /\ nonce = <<>>
    /\ rand = <<>>
    /\ bHeaderWritten = FALSE
    /\ epc = "start"
    /\ out = <<>>
    /\ bw = idleWriter
    /\ rhit = FALSE
    /\ pass = FALSE
    /\ marks = <<>>
    /\ attack = noAttack
    /\ stream = <<>>
    /\ bbuf = <<>>
    /\ dkey = 0
    /\ rst = 0
    /\ bufCap = 0
    /\ sink = <<>>
    /\ dbw = idleWriter
    /\ dextra = <<>>
    /\ nopened = 0
    /\ dpc = "idle"
    /\ upc = "init"
    /\ uh \in IF pkg = "cryptod" THEN ChunkHeaderInputs ELSE HeaderInputs
    /\ uw = [err |-> "nil", bytes |-> <<>>, held |-> <<>>]
    /\ ucut = [kind |-> "pending", a |-> 0, b |-> 0]
    /\ usrc = <<>>
    /\ ures = <<>>
    /\ fpc = "off"
    /\ fargs = <<>>
    /\ files = <<>>
    /\ fret = <<>>

mainVars == <<encInputs, encVars, attack, decVars, fileVars>>

\* writeChunkHeader(uh, buf), buf a bytes.Buffer
Unit_writeChunkHeader ==
    /\ upc = "init" /\ pkg = "cryptod"
    /\ uw' = writeChunkHeader_sink(uh, hrev)
    /\ upc' = "written"
    /\ UNCHANGED <<uh, ucut, usrc, ures, mainVars>>

\* uh.write(w), w a bytes.Buffer, an errorWriter or a LimitedWriter; uw
\* also keeps whether a write to w failed, and nothing is read back from a
\* writer that failed
Unit_headerWrite ==
    /\ upc = "init" /\ pkg = "crypto"
    /\ \E lim \in SinkLimits :
       \E w \in {headerWrite([bufio |-> FALSE, limit |-> lim, buf |-> <<>>,
                                 err |-> "nil", failed |-> FALSE, out |-> <<>>], uh)} :
           /\ uw' = [err |-> w.err, bytes |-> w.out, held |-> <<>>,
                     failed |-> w.failed]
           /\ upc' = IF w.failed THEN "failed" ELSE "written"
    /\ UNCHANGED <<uh, ucut, usrc, ures, mainVars>>

\* uh.validate()
Unit_headerValidate ==
    /\ upc = "init" /\ pkg = "crypto"
    /\ ures' = [h |-> uh, err |-> headerValidate(uh), rest |-> <<>>]
    /\ upc' = "validated"
    /\ UNCHANGED <<uh, uw, ucut, usrc, mainVars>>

HandSource(kind, a, b, segs) ==
    /\ upc = "written"
    /\ ucut' = [kind |-> kind, a |-> a, b |-> b]
    /\ usrc' = segs
    /\ upc' = "ready"
    /\ UNCHANGED <<uh, uw, ures, mainVars>>

\* the source is the buffer the header was written to
SourceSink ==
    /\ upc = "written"
    /\ HandSource("sink", 0, 0, Segs(uw.bytes))

\* the source is the header's bytes as they stand in a stream
SourceWire == pkg = "cryptod" /\ HandSource("wire", 0, 0, Segs(wire))

\* the source ends after the first n bytes of the header
SourceCut == \E n \in 0..(Len(wire) - 1) : HandSource("trunc", n, 0, Segs(Take(wire, n)))

\* the source hands the header over in two pieces, the first of n bytes
SourceSplit ==
    /\ pkg = "crypto"
    /\ \E n \in 1..(Len(wire) - 1) : HandSource("split", n, 0, <<Take(wire, n), Drop(wire, n)>>)

\* the first two bytes are not the chunk tag
SourceBadTag ==
    /\ pkg = "cryptod"
    /\ \E t1 \in {chunkTag[1], 0, chunkTag[2]} : \E t2 \in {chunkTag[2], 0, chunkTag[1]} :
           /\ <<t1, t2>> # chunkTag
           /\ HandSource("tag", t1, t2, Segs(Bs(<<t1, t2>>) \o Drop(wire, Len(chunkTag))))

\* the length field holds five varint bytes of a value of 2^31 or more
SourceLength ==
    /\ pkg = "cryptod"
    /\ \E k \in {0, 1, 127} : \E g \in {8, 16, 17, 127} :
           HandSource("len", k, g,
                      Segs(Take(wire, Len(wire) - MaxVarintLen32) \o Bs(LengthField(k, g))))

\* the header declares a nonce of n bytes, n above the ceiling of 128 and
\* within the one byte that holds it, and n bytes of nonce follow
SourceNonceSize ==
    /\ pkg = "cryptod"
    /\ \E n \in {MaxNonceSize + 1, 255} :
           HandSource("nsize", n, 0,
                      Segs(chunkHeaderBytes([uh EXCEPT !.nonce = Repeat(0, n)])))

\* readChunkHeader(r, maxChunkSize), r a bytes.Buffer holding the source
Unit_readChunkHeader ==
    /\ upc = "ready" /\ pkg = "cryptod"
    /\ \E r \in {IF hrev = "Read"
                 THEN readChunkHeader_Read([buf |-> <<>>, src |-> Flat(usrc)], UnitMaxChunkSize)
                 ELSE readChunkHeader([buf |-> <<>>, src |-> Flat(usrc)], UnitMaxChunkSize)} :
           ures' = r
    /\ upc' = "read"
    /\ UNCHANGED <<uh, uw, ucut, usrc, mainVars>>

\* h2.read(r), h2 a zero header
Unit_headerRead ==
    /\ upc = "ready" /\ pkg = "crypto"
    /\ ures' = headerReadFrom(zeroHeader, 1, usrc)
    /\ upc' = "read"
    /\ UNCHANGED <<uh, uw, ucut, usrc, mainVars>>

UnitNext ==
    \/ Unit_writeChunkHeader
    \/ Unit_headerWrite
    \/ Unit_headerValidate
    \/ SourceSink
    \/ SourceWire
    \/ SourceCut
    \/ SourceSplit
    \/ SourceBadTag
    \/ SourceLength
    \/ SourceNonceSize
    \/ Unit_readChunkHeader
    \/ Unit_headerRead

UnitSpec == UnitInit /\ [][UnitNext]_vars

\* ================================================ the files of a decryption
\* DecryptFile, or cmd of the command line, decrypts the file that holds
\* what Encrypt wrote with the original file name as extra data.  fargs.entry
\* is "DecryptFile" for DecryptFile with the temporary file of its own, and
\* "cmd" for cmd over the DecryptFile that returns the extra data.

\* the tries of tempFilename, which are 1000
MaxTempTries == 2

\* A path is [dir, name]: dir names a directory and is "" in a relative
\* path; the path with an empty name is the directory itself.
emptyPath == [dir |-> "", name |-> <<>>]

\* the encrypted input file, given as an absolute path
inputFile == [dir |-> "in", name |-> <<9>>]

\* the candidates of tempFilename, in the order rand.Reader gives them
TempName(k) == <<100, k>>

\* filepath.Abs(p) with the working directory wd, which is also how the
\* system resolves a relative path
Abs(p, wd) == IF p.dir = "" THEN [p EXCEPT !.dir = wd] ELSE p

\* filepath.Dir(p)
Dir(p) == [p EXCEPT !.name = <<>>]

\* filepath.Join(d, n), d a directory
Join(d, n) == [d EXCEPT !.name = n]

\* the file p created, or written, with the contents data
PutFile(fs, p, data) == [q \in DOMAIN fs \cup {p} |-> IF q = p THEN data ELSE fs[q]]

\* A faulty removal: the file stays.
RemoveFile_keeps(fs, p) == fs

\* os.Remove(p)
RemoveFile(fs, p) == [q \in DOMAIN fs \ {p} |-> fs[q]]

\* tempFilename(dir), from its k-th try on: [name, panic].  The loop of
\* DecryptFile's tempFilename ends at a name that exists (atExisting), the
\* loop of cmd's at a name that does not (os.Stat returns an error).
RECURSIVE tempFilename(_, _, _, _, _)
tempFilename(fs, dir, wd, atExisting, k) ==
    IF (Abs(Join(dir, TempName(k)), wd) \in DOMAIN fs) = atExisting
    THEN [name |-> TempName(k), panic |-> FALSE]
    ELSE IF k > MaxTempTries THEN [name |-> <<>>, panic |-> TRUE]
    ELSE tempFilename(fs, dir, wd, atExisting, k + 1)

FileInit ==
    /\ fargs \in [entry : {"EncryptFile", "DecryptFile", "cmd"}, wd : {"in", "wd"},
                  fileOut : {emptyPath, [dir |-> "", name |-> <<50>>],
                             [dir |-> "in", name |-> <<50>>]},
                  key : Keys]
    /\ pkg = "cryptod"
    /\ hrev \in {"Read", "ReadFull"}
    /\ skey = 1
    /\ plain \in {Repeat(1, n) : n \in 0..MaxPlainLen}
    /\ extraIn \in {Repeat(7, n) : n \in 1..ChunkSize}
    /\ fault \in IF fargs.entry = "EncryptFile"
                 THEN {[noFault EXCEPT !.wlimit = l] : l \in {NoLimit, 0, 10}}
                 ELSE {noFault}
    /\ reader = plain
    /\ extra = extraIn
    /\ ctr = 0
    /\ nonce = <<>>
    /\ rand = [k \in 1..MaxReads |-> k % 2]
    /\ bHeaderWritten = FALSE
    /\ epc = IF fargs.entry = "EncryptFile" THEN "idle" ELSE "start"
    /\ out = <<>>
    /\ bw = idleWriter
    /\ rhit = FALSE
    /\ pass = FALSE
    /\ marks = <<>>
    /\ attack = noAttack
    /\ stream = <<>>
    /\ bbuf = <<>>
    /\ dkey = 0
    /\ rst = 0
    /\ bufCap = 0
    /\ sink = <<>>
    /\ dbw = idleWriter
    /\ dextra = <<>>
    /\ nopened = 0
    /\ dpc = "idle"
    /\ upc = "off"
    /\ uh = <<>>
    /\ uw = <<>>
    /\ ucut = <<>>
    /\ usrc = <<>>
    /\ ures = <<>>
    /\ fpc = "init"
    /\ \E j \in 0..(MaxTempTries + 1) :
           files = [q \in {Join(Dir(inputFile), TempName(k)) : k \in 1..j} |-> <<>>]
    /\ fret = [fileOut |-> emptyPath, bTempUsed |-> FALSE, ret |-> <<>>, err |-> "nil"]

\* EncryptFile up to its call of Encrypt: the output file is created, or
\* truncated
EncryptFile_open ==
    /\ fpc = "init" /\ fargs.entry = "EncryptFile" /\ epc = "idle"
    /\ IF Abs(fargs.fileOut, fargs.wd).name = <<>>
       THEN /\ fpc' = "returned"
            /\ fret' = [fret EXCEPT !.fileOut = fargs.fileOut, !.err = "is a directory"]
            /\ UNCHANGED <<files, epc>>
       ELSE /\ fpc' = "encrypting"
            /\ fret' = [fret EXCEPT !.fileOut = fargs.fileOut]
            /\ files' = PutFile(files, Abs(fargs.fileOut, fargs.wd), <<>>)
            /\ epc' = "start"
    /\ UNCHANGED <<fargs, reader, extra, ctr, nonce, rand, bHeaderWritten, pass, out, bw,
                   rhit, marks>>
    /\ UNCHANGED <<unitVars, encInputs, attack, decVars>>

\* EncryptFile once Encrypt has returned
EncryptFile_close ==
    /\ fpc = "encrypting" /\ fargs.entry = "EncryptFile"
    /\ epc \in {"done", "err"}
    /\ fpc' = "returned"
    /\ IF epc = "err"
       THEN /\ files' = RemoveFile(PutFile(files, Abs(fret.fileOut, fargs.wd), encWriter.out),
                                   Abs(fret.fileOut, fargs.wd))
            /\ fret' = [fret EXCEPT !.err = "encrypt"]
       ELSE /\ files' = PutFile(files, Abs(fret.fileOut, fargs.wd), encWriter.out)
            /\ UNCHANGED fret
    /\ UNCHANGED <<fargs, attack, decVars>>
    /\ UNCHANGED <<unitVars, encInputs, encVars>>

\* os.Create(fileOut), then Decrypt is called on the two files
CreateAndDecrypt(fileOut, bTempUsed) ==
    IF Abs(fileOut, fargs.wd).name = <<>>
    THEN /\ fpc' = "returned"
         /\ fret' = [fileOut |-> fileOut, bTempUsed |-> bTempUsed, ret |-> <<>>,
                     err |-> "is a directory"]
         /\ UNCHANGED <<files, attack, stream, dkey, dpc>>
    ELSE /\ fpc' = "decrypting"
         /\ fret' = [fileOut |-> fileOut, bTempUsed |-> bTempUsed, ret |-> <<>>,
                     err |-> "nil"]
         /\ files' = PutFile(files, Abs(fileOut, fargs.wd), <<>>)
         /\ attack' = [kind |-> "none", a |-> 0, b |-> 0, given |-> encWriter.out]
         /\ stream' = encWriter.out
         /\ dkey' = fargs.key
         /\ dpc' = "start"

\* DecryptFile up to its call of Decrypt
DecryptFile_open ==
    /\ fpc = "init" /\ fargs.entry = "DecryptFile" /\ InTransit
    /\ \E abs \in {Abs(fargs.fileOut, fargs.wd)} :
       \E t \in {tempFilename(files, Dir(inputFile), fargs.wd, TRUE, 1)} :
           IF abs = emptyPath /\ t.panic
           THEN /\ fpc' = "panic"
                /\ UNCHANGED <<fret, files, attack, stream, dkey, dpc>>
           ELSE IF abs = emptyPath
           THEN CreateAndDecrypt([dir |-> "", name |-> t.name], TRUE)
           ELSE CreateAndDecrypt(abs, FALSE)
    /\ UNCHANGED <<fargs, bbuf, rst, bufCap, sink, dbw, dextra, nopened>>
    /\ UNCHANGED <<unitVars, encInputs, encVars>>

\* cmd, and the DecryptFile it calls up to its call of Decrypt
cmd_open ==
    /\ fpc = "init" /\ fargs.entry = "cmd" /\ InTransit
    /\ \E t \in {tempFilename(files, Dir(inputFile), fargs.wd, FALSE, 1)} :
           IF fargs.fileOut = emptyPath /\ t.panic
           THEN /\ fpc' = "panic"
                /\ UNCHANGED <<fret, files, attack, stream, dkey, dpc>>
           ELSE IF fargs.fileOut = emptyPath
           THEN CreateAndDecrypt([dir |-> "", name |-> t.name], TRUE)
           ELSE CreateAndDecrypt(fargs.fileOut, FALSE)
    /\ UNCHANGED <<fargs, bbuf, rst, bufCap, sink, dbw, dextra, nopened>>
    /\ UNCHANGED <<unitVars, encInputs, encVars>>

\* the output file as Decrypt leaves it
written == PutFile(files, Abs(fret.fileOut, fargs.wd), decWriter.out)

\* DecryptFile once Decrypt has returned
DecryptFile_close ==
    /\ fpc = "decrypting" /\ fargs.entry = "DecryptFile"
    /\ dpc \in {"done", "err", "panic"}
    /\ IF dpc = "panic"
       THEN /\ fpc' = "panic"
            /\ files' = written
            /\ UNCHANGED fret
       ELSE /\ fpc' = "returned"
            /\ IF dpc = "err"
               THEN /\ files' = RemoveFile(written, Abs(fret.fileOut, fargs.wd))
                    /\ fret' = [fret EXCEPT !.err = "decrypt"]
               ELSE IF fret.bTempUsed
               THEN /\ files' = RemoveFile(written, Abs(fret.fileOut, fargs.wd))
                    /\ fret' = [fret EXCEPT !.ret = Join(Dir(inputFile), dextra)]
               ELSE /\ files' = written
                    /\ fret' = [fret EXCEPT !.ret = dextra]
    /\ UNCHANGED <<fargs, attack, decVars>>
    /\ UNCHANGED <<unitVars, encInputs, encVars>>

\* the DecryptFile cmd calls once Decrypt has returned, and the rest of cmd
cmd_close ==
    /\ fpc = "decrypting" /\ fargs.entry = "cmd"
    /\ dpc \in {"done", "err", "panic"}
    /\ IF dpc = "panic"
       THEN /\ fpc' = "panic"
            /\ files' = written
            /\ UNCHANGED fret
       ELSE /\ fpc' = "returned"
            /\ IF dpc = "err"
               THEN /\ files' = RemoveFile(written, Abs(fret.fileOut, fargs.wd))
                    /\ fret' = [fret EXCEPT !.err = "decrypt"]
               ELSE IF fret.bTempUsed
               THEN \E fspec \in {Join(Dir(fret.fileOut), dextra)} :
                    IF Abs(fspec, fargs.wd).name = <<>>
                    THEN /\ files' = written
                         /\ fret' = [fret EXCEPT !.err = "rename"]
                    ELSE /\ files' = PutFile(RemoveFile(written, Abs(fret.fileOut, fargs.wd)),
                                             Abs(fspec, fargs.wd), decWriter.out)
                         /\ UNCHANGED fret
               ELSE /\ files' = written
                    /\ UNCHANGED fret
    /\ UNCHANGED <<fargs, attack, decVars>>
    /\ UNCHANGED <<unitVars, encInputs, encVars>>

FileNext ==
    \/ EncryptFile_open
    \/ EncryptStart
    \/ EncryptLoop_cryptod
    \/ EncryptTomb
    \/ EncryptFile_close
    \/ DecryptFile_open
    \/ cmd_open
    \/ DecryptStart
    \/ DecryptLoop_cryptod
    \/ DecryptFile_close
    \/ cmd_close

FileSpec == FileInit /\ [][FileNext]_vars


\* =============================================================== claims
\* Decrypt has returned (or panicked)
Finished == dpc \in {"done", "err", "panic"}

\* C1 - Round trip (package cryptod): Decrypt, under the key of Encrypt, of
\* the complete output of a successful Encrypt of any plaintext (the empty
\* one included) without extra metadata succeeds, writes exactly that
\* plaintext and returns empty extra metadata.
C1_RoundTrip ==
    (pkg = "cryptod" /\ attack.kind = "none" /\ extraIn = <<>> /\ Finished)
        => (dpc = "done" /\ sink = plain /\ dextra = <<>>)

\* C2 - Extra-metadata round trip (package cryptod): with metadata of at
\* most ChunkSize bytes, Decrypt of Encrypt's output succeeds, writes exactly
\* the plaintext and returns exactly the metadata.
C2_ExtraRoundTrip ==
    (pkg = "cryptod" /\ attack.kind = "none" /\ Len(extraIn) <= ChunkSize /\ Finished)
        => (dpc = "done" /\ sink = plain /\ dextra = extraIn)

\* C3 - Tamper detection: after one ciphertext byte of one chunk of a valid
\* stream is altered, Decrypt returns an error; it never returns success.
C3_TamperDetected ==
    (attack.kind = "flip" /\ Finished) => dpc = "err"

\* the second chunk was altered: the first was accepted, the second refused
C3_Witness ==
    /\ attack.kind = "flip" /\ attack.a = 2
    /\ dpc = "err" /\ nopened = 1

\* C4 - Header rewrite: after a chunk header's kind byte, nonce or declared
\* length is rewritten, Decrypt fails or yields exactly the original
\* plaintext and metadata.
C4_HeaderRewriteHarmless ==
    (attack.kind \in {"kind", "nonce", "len"} /\ Finished)
        => (dpc # "done" \/ (sink = plain /\ dextra = extraIn))

\* C5 - Reordering detection: after two chunks of a valid stream are
\* swapped, Decrypt fails no later than the first of the two.
C5_ReorderDetected ==
    (attack.kind = "swap" /\ Finished) => (dpc = "err" /\ nopened < attack.a)

\* C6 - Deletion detection: after one whole non-terminator chunk is removed
\* from a valid stream, Decrypt fails.
C6_DeletionDetected ==
    (attack.kind = "delete" /\ Finished) => dpc = "err"

\* C7 - Duplication detection: after a second copy of a non-terminator chunk
\* is inserted into a valid stream, Decrypt fails.
C7_DuplicationDetected ==
    (attack.kind = "dup" /\ Finished) => dpc = "err"

\* C8 - Truncation detection: Decrypt of a valid stream cut anywhere before
\* its terminator chunk returns an error, never success.
C8_TruncationDetected ==
    (attack.kind = "trunc" /\ Finished) => dpc = "err"

\* the stream was cut on the boundary after its first chunk, which Decrypt
\* accepted before it met the end of the input
C8_Witness ==
    /\ attack.kind = "trunc"
    /\ Len(marks) >= 2 /\ attack.a = marks[2].off
    /\ dpc = "err" /\ nopened = 1

\* C9 - Wrong-key rejection: Decrypt of a valid stream that holds a
\* non-empty chunk, under a key other than Encrypt's, returns an error at the
\* first chunk: nothing is decrypted, nothing written, nothing returned.
C9_WrongKeyRejected ==
    (attack.kind = "wrongkey" /\ (plain # <<>> \/ extraIn # <<>>) /\ Finished)
        => (dpc = "err" /\ nopened = 0 /\ sink = <<>> /\ dextra = <<>>)

\* a stream of several chunks was refused under another key
C9_Witness ==
    /\ attack.kind = "wrongkey" /\ dkey # skey
    /\ Len(marks) >= 3
    /\ dpc = "err" /\ nopened = 0

\* C10 - Well-formed output: the stream of a successful Encrypt is one
\* stream header, then the non-terminator chunks one after the other, then
\* one terminator chunk header and nothing after it.
C10_WellFormedOutput ==
    epc = "done" =>
        /\ Len(marks) >= 1
        /\ Take(out, Len(headerBytes(headerInit))) = headerBytes(headerInit)
        /\ marks[1].off = Len(headerBytes(headerInit))
        /\ \A i \in 1..(Len(marks) - 1) :
               ~marks[i].tomb /\ chunkEnd(i) = marks[i + 1].off
        /\ lastMark.tomb
        /\ chunkEnd(Len(marks)) = Len(out)

\* C11 - Empty input (package crypto): Encrypt of an empty source succeeds
\* and emits exactly the stream header followed by one terminator chunk
\* header, and Decrypt of that output succeeds and writes nothing.
C11_EmptyInput ==
    (pkg = "crypto" /\ plain = <<>>) =>
        /\ epc # "err"
        /\ epc = "done" =>
               /\ Len(marks) = 1 /\ marks[1].tomb
               /\ out = headerBytes(headerInit) \o chunkBytes(1)
        /\ (attack.kind = "none" /\ Finished) => (dpc = "done" /\ sink = <<>>)

\* the stream begins with the bytes of a valid stream header
HasStreamHeader(bs) ==
    Take(bs, Len(headerBytes(headerInit))) = headerBytes(headerInit)

\* C12 - Header first: Decrypt reads and validates the stream header before
\* any chunk, so for every input whose leading bytes are not a valid stream
\* header (a valid chunk sequence without its header included) it returns an
\* error and writes nothing.
C12_HeaderFirst ==
    (attack.kind # "pending" /\ Finished /\ ~HasStreamHeader(attack.given))
        => (dpc = "err" /\ sink = <<>>)

\* some field of the header h differs from its expected value
Differs(h) == \E f \in DOMAIN headerInit : h[f] # headerInit[f]

\* C13 - Stream header validation: header.validate, and header.read of the
\* header's bytes, return an error exactly when size, magic, scheme, verMaj
\* or verMin differs from its expected value; the zero header fails and the
\* header init() fills passes.
C13_ValidateIff ==
    (pkg = "crypto" /\ (upc = "validated" \/ (upc = "read" /\ ucut.kind = "sink")))
        => (ures.err # "nil" <=> Differs(uh))

\* a header that is right in every field but verMin was refused
C13_Witness ==
    /\ pkg = "crypto" /\ upc = "validated"
    /\ uh = [headerInit EXCEPT !.verMin = <<verMin + 1>>]
    /\ ures.err = "expected verMin"

\* where field i of the stream header ends in its bytes
RECURSIVE fieldEnd(_)
fieldEnd(i) == IF i = 0 THEN 0 ELSE fieldEnd(i - 1) + Len(headerInit[headerFields[i]])

\* some r.Read of header.read gets fewer bytes than its field has
ShortRead ==
    \/ ucut.kind = "trunc"
    \/ ucut.kind = "split" /\ ucut.a \notin {fieldEnd(i) : i \in 1..Len(headerFields)}

\* C14 - Stream header short reads: when the source supplies fewer bytes
\* than a field requires, header.read returns an error; it never succeeds
\* with a field partly filled with zeros.
C14_ShortReadFails ==
    (pkg = "crypto" /\ upc = "read" /\ ShortRead) => ures.err # "nil"

\* the source of a valid header ended before verMin, whose expected value
\* is the zero byte the field held before the read
C14_Witness ==
    /\ pkg = "crypto" /\ upc = "read"
    /\ uh = headerInit
    /\ ucut.kind = "trunc" /\ ucut.a = fieldEnd(Len(headerFields) - 1)
    /\ ures.err = "wrong number of byte read"

\* C15 - Stream header round trip: a header filled by init(), written with
\* write to a buffer and read back with read, reads without error and gives
\* a header with the same field values, which passes validate.
C15_HeaderRoundTrip ==
    (pkg = "crypto" /\ uh = headerInit /\ upc = "read" /\ ucut.kind = "sink")
        => (uw.err = "nil" /\ ures.err = "nil" /\ ures.h = uh
            /\ headerValidate(ures.h) = "nil")

\* the header of init() went through a buffer and came back
C15_Witness ==
    /\ pkg = "crypto" /\ uh = headerInit /\ upc = "read" /\ ucut.kind = "sink"
    /\ Len(Flat(usrc)) = 1 + headerSize
    /\ ures.h = headerInit

\* the kind and the scheme of the chunk header h are valid
ValidKinds(h) == checkChunkType(h.ct) = "nil" /\ checkSchemeType(h.st) = "nil"

\* C16 - Chunk header round trip: for a header of valid kind and scheme, a
\* nonce of 0..255 bytes and dataSize <= maxChunkSize, writeChunkHeader to a
\* sink succeeds and readChunkHeader on the sink's bytes returns an equal
\* header.
C16_ChunkHeaderRoundTrip ==
    (pkg = "cryptod" /\ ValidKinds(uh) /\ uh.dataSize <= UnitMaxChunkSize)
        => /\ upc # "init" => uw.err = "nil"
           /\ (upc = "read" /\ ucut.kind = "sink")
                  => (ures.err = "nil" /\ ures.h = uh)

\* C17 - writeChunkHeader fails fast: for a header of invalid kind or
\* invalid scheme it returns an error and not one byte has been written.
C17_WriteFailsFast ==
    (pkg = "cryptod" /\ upc # "init" /\ ~ValidKinds(uh))
        => (uw.err # "nil" /\ uw.bytes = <<>> /\ uw.held = <<>>)

\* a header of valid kind and invalid scheme was refused
C17_Witness ==
    /\ pkg = "cryptod" /\ upc = "written"
    /\ uh.ct = chunkTypeData /\ uh.st = badType /\ uh.nonce # <<>>
    /\ uw.err = "invalid scheme type"

\* C18 - Oversized chunk rejection: readChunkHeader rejects every header
\* whose encoded length, a varint of five bytes, exceeds maxChunkSize; no
\* such length is accepted after it is narrowed to 32 bits.
C18_OversizeRejected ==
    (pkg = "cryptod" /\ upc = "read"
     /\ (ucut.kind = "len" \/ (ucut.kind = "wire" /\ uh.dataSize > UnitMaxChunkSize)))
        => ures.err # "nil"

\* C19 - Tag check first: readChunkHeader returns 'invalid chunk tag' for
\* every input whose first two bytes are not the chunk tag, before it reads
\* or interprets kind, scheme, nonce or length.
C19_TagFirst ==
    (pkg = "cryptod" /\ upc = "read" /\ ucut.kind = "tag")
        => /\ ures.err = "invalid chunk tag"
           /\ ures.h = zeroChunkHeader
           /\ Len(ures.br.buf) + Len(ures.br.src) = Len(Flat(usrc)) - Len(chunkTag)

\* a header whose kind is valid and whose second tag byte is wrong was
\* refused for its tag by the revision of chunk.go
C19_Witness ==
    /\ pkg = "cryptod" /\ hrev = "Read" /\ upc = "read" /\ ucut.kind = "tag"
    /\ ucut.a = chunkTag[1] /\ ValidKinds(uh) /\ uh.dataSize <= UnitMaxChunkSize
    /\ ures.err = "invalid chunk tag"

\* C20 - Truncated chunk header: readChunkHeader returns an error whenever
\* the source ends before all header bytes are there; it never succeeds
\* with a nonce or a length completed by zero bytes.
C20_TruncatedHeaderFails ==
    (pkg = "cryptod" /\ upc = "read" /\ ucut.kind = "trunc") => ures.err # "nil"

\* the chunk header Decrypt reads next, with the reader it leaves behind
nextHeader ==
    IF pkg = "crypto"
    THEN Bind(readChunkHeader_crypto(stream, maxChunkSizeSanity), LAMBDA r :
              [tomb |-> r.h.tomb, ct |-> chunkTypeData, size |-> r.h.size,
               err |-> r.err, buf |-> <<>>, src |-> r.rest])
    ELSE Bind(IF hrev = "Read"
              THEN readChunkHeader_Read([buf |-> bbuf, src |-> stream], maxChunkSizeSanity)
              ELSE readChunkHeader([buf |-> bbuf, src |-> stream], maxChunkSizeSanity),
              LAMBDA r : [tomb |-> r.h.ct = chunkTypeTomb, ct |-> r.h.ct,
                          size |-> r.h.dataSize, err |-> r.err,
                          buf |-> r.br.buf, src |-> r.br.src])

\* C21 - Terminator handling: when Decrypt reads a chunk header of kind
\* terminator it finishes successfully; it reads no payload and no further
\* chunk and writes no further plaintext, whether or not bytes follow the
\* terminator in the source.
C21_TombEnds ==
    [][(dpc = "loop" /\ nextHeader.tomb)
          => /\ dpc' = "done"
             /\ sink' = sink /\ dextra' = dextra /\ nopened' = nopened
             /\ bbuf' = nextHeader.buf /\ stream' = nextHeader.src]_vars

\* Decrypt is done, and the copy of a chunk that follows the terminator is
\* still unread
C21_Witness ==
    /\ attack.kind = "trail" /\ attack.a = 1
    /\ dpc = "done" /\ nopened >= 1
    /\ Len(bbuf) + Len(stream) = Len(chunkBytes(1))

\* the kind byte of chunk i of the stream Encrypt wrote
kindOf(i) == out[kindPos(i)].v

\* the plaintext sealed in chunk i
sealedIn(i) == out[marks[i].off + marks[i].hlen + 1].s[4]

\* C26 - Extra-metadata ordering: in every stream Encrypt emits for
\* non-empty extra metadata, the chunks of kind extra-metadata come before
\* every chunk of kind data, and the metadata is emitted exactly once.
C26_ExtraFirst ==
    (pkg = "cryptod" /\ extraIn # <<>> /\ Len(marks) >= 1)
        => /\ kindOf(1) = chunkTypeExtra /\ sealedIn(1) = extraIn
           /\ \A i \in NonTomb \ {1} : kindOf(i) = chunkTypeData

\* a finished stream of an extra-metadata chunk and two data chunks
C26_Witness ==
    /\ pkg = "cryptod" /\ extraIn # <<>> /\ epc = "done"
    /\ Len(marks) = 4
    /\ kindOf(1) = chunkTypeExtra /\ kindOf(3) = chunkTypeData

\* the plaintext of the chunk whose header Decrypt reads next, once the
\* chunk has been opened: none for a chunk of length 0
nextPlain ==
    IF nextHeader.size = 0 THEN <<>>
    ELSE (nextHeader.buf \o nextHeader.src)[1].s[4]

\* C27 - Extra-metadata routing: in Decrypt the plaintext of every
\* extra-metadata chunk is appended to the returned metadata and never
\* written to the plaintext sink, and the plaintext of every data chunk is
\* written to the sink and never added to the metadata.
C27_Routing ==
    [][pkg = "cryptod" =>
          /\ sink' # sink => nextHeader.ct = chunkTypeData
          /\ dextra' # dextra => nextHeader.ct = chunkTypeExtra
          /\ (nopened' = nopened + 1 /\ nextHeader.ct = chunkTypeData)
                 => (sink' = sink \o nextPlain /\ dextra' = dextra)
          /\ (nopened' = nopened + 1 /\ nextHeader.ct = chunkTypeExtra)
                 => (dextra' = dextra \o nextPlain /\ sink' = sink)]_vars

\* a stream of metadata and two data chunks was decrypted: the metadata was
\* returned and the data written
C27_Witness ==
    /\ pkg = "cryptod" /\ attack.kind = "none" /\ dpc = "done"
    /\ extraIn # <<>> /\ Len(plain) > ChunkSize
    /\ dextra = extraIn /\ sink = plain

\* the nonce chunk i was sealed under
sealNonce(i) == out[marks[i].off + marks[i].hlen + 1].s[2]

\* C28 - Nonce uniqueness: within one Encrypt no two sealed chunks, data or
\* extra-metadata, carry the same nonce, whatever the random bytes are.
C28_NonceUnique ==
    \A i \in NonTomb : \A j \in NonTomb : i # j => sealNonce(i) # sealNonce(j)

\* three chunks were sealed while rand.Reader handed out the same bytes for
\* each of them
C28_Witness ==
    /\ epc = "done" /\ Len(marks) >= 4
    /\ \A i \in NonTomb : \A k \in (MaxVarintLen32 + 1)..NonceSize :
           sealNonce(i)[k] = sealNonce(1)[k]

\* the additional authenticated data chunk i was sealed with
sealAAD(i) == out[marks[i].off + marks[i].hlen + 1].s[3]

\* the encodings of the counter value n (below 256): four bytes big-endian,
\* four bytes little-endian, or a varint
CounterAAD(n) == {<<0, 0, 0, n>>, <<n, 0, 0, 0>>, PutUvarint(n)}

\* C29 - AAD sequence binding: Encrypt seals the n-th non-terminator chunk,
\* counted from 1 across data and extra-metadata chunks, with additional
\* authenticated data equal to the encoded counter value n (and Decrypt
\* opens the n-th chunk it processes with the same data).
C29_AADSequence ==
    \A i \in NonTomb : sealAAD(i) \in CounterAAD(i)

\* C22 - Encrypt propagates sink failures (package cryptod): when Encrypt
\* returns nil, no write to the ciphertext sink has failed, the final flush
\* included, and every byte it emitted has reached the sink.
C22_SinkFailurePropagates ==
    (pkg = "cryptod" /\ epc = "done") => (~bw.failed /\ bw.buf = <<>>)

\* C23 - Decrypt propagates sink failures (package cryptod): when Decrypt
\* returns without an error, no write to the plaintext sink has failed, the
\* final flush included, and every decrypted byte has reached the sink.
C23_PlainSinkFailurePropagates ==
    (pkg = "cryptod" /\ dpc = "done") => (~dbw.failed /\ dbw.buf = <<>>)

\* C24 - Encrypt propagates source failures: when reading the plaintext
\* source has failed with an error other than the end of the input, Encrypt
\* does not return nil.
C24_SourceFailurePropagates == rhit => epc # "done"


\* C25 - header.write returns the sink's error: when a write of a field to
\* the sink has failed, header.write does not return nil.
C25_HeaderWriteError ==
    (pkg = "crypto" /\ upc = "failed") => uw.err # "nil"

\* C30 - Output naming when fileOut is empty: when DecryptFile, or cmd, is
\* called with an empty fileOut and returns without an error, the file named
\* by the stored original file name in the input's directory holds the
\* decrypted plaintext.
C30_OutputNamed ==
    (fpc = "returned" /\ fargs.fileOut = emptyPath /\ fret.err = "nil")
        => /\ Join(Dir(inputFile), extraIn) \in DOMAIN files
           /\ files[Join(Dir(inputFile), extraIn)] = plain

\* C31 - Terminator strictness: Decrypt leaves its loop with success only
\* at a terminator chunk header that readChunkHeader returned without an
\* error; an error of readChunkHeader ends Decrypt with an error, whichever
\* kind byte was read before it.
C31_TerminatorStrict ==
    [][(dpc = "loop" /\ nextHeader.err # "nil") => dpc' = "err"]_vars

\* C32 - Every accepted chunk is authenticated: Decrypt accepts a chunk that
\* is not the terminator only after gcm.Open succeeded on its payload, which
\* no payload of length zero passes; a header that declares a ciphertext
\* length of zero is not accepted.
C32_AcceptedIsOpened ==
    [][nopened' = nopened + 1 => nextHeader.size > 0]_vars

C34_ChunkCounter ==
    [][/\ (epc = "start" /\ epc' = "loop") => ctr' = 1
       /\ epc # "start" => ctr' \in {ctr, ctr + 1}
       /\ (epc # "start" /\ ctr' = ctr + 1)
              <=> (Len(marks') = Len(marks) + 1 /\ ~marks'[Len(marks')].tomb)
       /\ (epc # "start" /\ ctr' = ctr + 1)
              => /\ nonce' = PutInto(Repeat(Head(rand), NonceSize),
                                     PutInto(Repeat(0, MaxVarintLen32), PutUvarint(ctr)))
                 /\ out'[marks'[Len(marks')].off + marks'[Len(marks')].hlen + 1].s[2] = nonce'
       /\ (\A i \in NonTomb :
               Take(sealNonce(i), MaxVarintLen32)
                   = PutInto(Repeat(0, MaxVarintLen32), PutUvarint(i)))']_vars

\* Encrypt has sealed the extra data and two data chunks and has returned
C34_Witness ==
    /\ epc = "done" /\ ctr = 4 /\ Len(marks) = 4 /\ extraIn # <<>>
    /\ Take(sealNonce(3), MaxVarintLen32) = <<3, 0, 0, 0, 0>>

C36_EncryptTerminates ==
    <>(epc \in {"done", "err"})

\* C37 - Read-granularity independence: what Decrypt makes of a byte stream
\* does not depend on how the source cuts the bytes into reads.  Decrypt of
\* package crypto starts with header.read on the source itself: reading the
\* header from a source gives what reading it from a source that holds the
\* same bytes in one piece gives.
C37_ReadGranularity ==
    (pkg = "crypto" /\ upc = "read")
        => (ures.err = "nil"
                <=> headerReadFrom(zeroHeader, 1, Segs(Flat(usrc))).err = "nil")

\* C38 - Bounded scratch buffer: in Decrypt the buffer is replaced only by
\* a pass whose chunk header declares more bytes than the buffer's capacity,
\* and then by one of just that many; its capacity is never more than the
\* sanity bound 2 * (ChunkSize + overhead), whatever chunks the input holds.
C38_BoundedBuffer ==
    [][/\ (dpc = "loop" /\ bufCap' # bufCap)
              => /\ nextHeader.err = "nil" /\ ~nextHeader.tomb
                 /\ nextHeader.size > bufCap
                 /\ bufCap' = nextHeader.size
       /\ (dpc = "loop" /\ nextHeader.err = "nil" /\ ~nextHeader.tomb
              /\ nextHeader.size <= bufCap) => bufCap' = bufCap
       /\ bufCap' <= maxChunkSizeSanity]_vars

\* a header that declares twice the chunk size made Decrypt replace its buffer
C38_Witness ==
    /\ attack.kind = "len" /\ attack.b = maxChunkSizeSanity
    /\ dpc \in {"err", "panic"} /\ bufCap = maxChunkSizeSanity

\* C39 - Nonce length ceiling: readChunkHeader returns an error for every
\* chunk header that declares a nonce of more than 128 bytes, and it has
\* then neither allocated nor read the nonce.
C39_NonceCeiling ==
    (pkg = "cryptod" /\ upc = "read" /\ ucut.kind = "nsize")
        => (ures.err # "nil" /\ ures.h.nonce = <<>>)

\* C40 - Cleanup on error: when Encrypt or Decrypt has returned an error,
\* EncryptFile, DecryptFile and cmd return an error, and when they return no
\* file is left at the path of the output file.
C40_CleanupOnError ==
    [][/\ (fpc = "encrypting" /\ epc = "err" /\ fpc' # fpc)
              => /\ fpc' = "returned" /\ fret'.err = "encrypt"
                 /\ Abs(fret.fileOut, fargs.wd) \notin DOMAIN files'
       /\ (fpc = "decrypting" /\ dpc = "err" /\ fpc' # fpc)
              => /\ fpc' = "returned" /\ fret'.err = "decrypt"
                 /\ Abs(fret.fileOut, fargs.wd) \notin DOMAIN files']_vars

\* Encrypt failed after a part of the stream had reached the output file,
\* and EncryptFile has returned
C40_Witness ==
    /\ fpc = "returned" /\ fargs.entry = "EncryptFile" /\ fret.err = "encrypt"
    /\ epc = "err" /\ encWriter.out # <<>>
    /\ Abs(fret.fileOut, fargs.wd) \notin DOMAIN files

====
